---- MODULE Spec2Model ----
(***************************************************************************)
(* Response-parsing pipeline of the Tech Referee API route                 *)
(* (parseLLMResponse and the parsers it calls).                            *)
(*                                                                         *)
(* Text is modelled as a sequence of lines.  A line is a record            *)
(*   [k |-> kind, d |-> label, f |-> format, a |-> words, b |-> words]     *)
(* and a descriptor is the sequence of its words, so that trimming,        *)
(* emptiness, bold stripping and the regular expressions of the source     *)
(* are computed on the text and not assumed.                                *)
(***************************************************************************)
EXTENDS Integers, Sequences, FiniteSets, TLC

VARIABLES response, tech1, tech2, pc, sections, taleOfTheTape, scenarios,
          hiddenTax, result, calls,
          now,      \* Date.now(), in milliseconds
          earlier,  \* what an earlier call of parseLLMResponse returned
          nodeEnv,      \* process.env.NODE_ENV
          rateLimitMap, \* client id -> { count, resetTime }
          request,      \* the request POST handled last
          httpResponse, \* the response POST gave to it
          admitted,     \* client id -> times at which checkRateLimit said yes
          retry,        \* the call of withRetry: its config, operation and locals
          flight,       \* the model call of a POST and the timer it races with
          page          \* the state of the page and of its error notification

\* the state of the route module and of the call of withRetry
server == <<nodeEnv, rateLimitMap, request, httpResponse, admitted, retry, flight,
           page>>

vars == <<response, tech1, tech2, pc, sections, taleOfTheTape, scenarios,
          hiddenTax, result, calls, now, earlier, nodeEnv, rateLimitMap,
          request, httpResponse, admitted, retry, flight, page>>

\* the state that a call of parseLLMResponse leaves alone
outside == <<now, earlier, nodeEnv, rateLimitMap, request, httpResponse, admitted,
             retry, flight, page>>

None == [none |-> TRUE]

\* the clients whose requests the route receives: the address of the
\* x-forwarded-for or x-real-ip header, 'unknown' without one
Clients == {"10.0.0.1", "unknown"}

\* the modules loaded, no request handled and withRetry not called yet
Loaded ==
  /\ retry = None
  /\ flight = None
  /\ page = None
  /\ rateLimitMap = [c \in {} |-> None]
  /\ request = None
  /\ httpResponse = None
  /\ admitted = [c \in Clients |-> <<>>]

Line(k, d, f, a, b) == [k |-> k, d |-> d, f |-> f, a |-> a, b |-> b]

(* ---------------------------------------------------------------------- *)
(* Lines of a reply                                                        *)
(* ---------------------------------------------------------------------- *)

\* "### n. Label" (f = "plain") or "### n. <emoji> The Label" (f = "emoji")
Heading(key, style) == Line("head", key, style, <<>>, <<>>)

\* the words that follow the emoji on a heading line; the quotation marks of
\* The "Hidden Tax" are atoms of their own
LabelWords(key) ==
  CASE key = "matchup" -> <<"The", "Matchup">>
    [] key = "taleOfTheTape" -> <<"The", "Tale", "of", "the", "Tape">>
    [] key = "verdicts" -> <<"The", "Verdicts">>
    [] key = "hiddenTax" -> <<"The", "\"", "Hidden", "Tax", "\"">>
    [] key = "tieBreaker" -> <<"The", "Tie-Breaker">>

LabelText(key) == Line("label", key, "", LabelWords(key), <<>>)

\* a blank line
Blank == Line("ws", "", "", <<>>, <<>>)

\* a line of prose without pipes, headings or keywords
Prose == Line("txt", "", "", <<"Comparing", "two", "technologies">>, <<>>)

\* heading of a scenario block, in the format of one of the first four
\* patterns of parseScenarios, or the name of the team alone on its line:
\*   single  **Scenario A (The 'Move Fast' Team):**
\*   double  **Scenario A (The "Move Fast" Team):**
\*   hash    ### Scenario A (The 'Move Fast' Team)
\*   colon   **Scenario A: The 'Move Fast' Team**
\*   bare    Move Fast Team
ScenarioHeading(team, fmt) == Line("scen", team, fmt, <<>>, <<>>)

\* the letter a reply gives to the scenario of a team type
Letter(team) ==
  CASE team = "Move Fast" -> "A"
    [] team = "Scale" -> "B"
    [] team = "Budget" -> "C"

\* the text of a heading before the team type
HeadingPrefix(team, fmt) ==
  CASE fmt = "single" -> <<"**Scenario", Letter(team), "(The", "'">>
    [] fmt = "double" -> <<"**Scenario", Letter(team), "(The", "\"">>
    [] fmt = "hash" -> <<"###", "Scenario", Letter(team), "(The", "'">>
    [] fmt = "colon" -> <<"**Scenario", Letter(team) \o ":", "The", "'">>
    [] fmt = "bare" -> <<>>

\* the text of a heading after the word Team
HeadingTail(fmt) ==
  CASE fmt \in {"single", "double"} -> "):**"
    [] fmt = "hash" -> ")"
    [] fmt = "colon" -> "**"
    [] fmt = "bare" -> ""

HeadingWords(team, fmt) ==
  LET p == HeadingPrefix(team, fmt)
      quote == IF fmt = "double" THEN "\"" ELSE "'"
  IN IF fmt = "bare" THEN <<team, "Team">>
     ELSE SubSeq(p, 1, Len(p) - 1)
          \o <<p[Len(p)] \o team \o quote, "Team" \o HeadingTail(fmt)>>

\* body of a scenario block:
\*   std    "Which wins? <a> Why? <b>"
\*   xwins  "<a> wins <b>"
\*   plain  "<b>"
Body(kind, a, b) == Line("body", "", kind, a, b)

BodyWords(line) ==
  CASE line.f = "std" -> <<"Which", "wins?">> \o line.a \o <<"Why?">> \o line.b
    [] line.f = "xwins" -> line.a \o <<"wins">> \o line.b
    [] OTHER -> line.b

\* a piece of a line that a pattern cut out
Seg(words) == Line("seg", "", "", words, <<>>)

\* sentence of the hidden tax section:
\*   strict  "If you choose <d>, be prepared to pay the tax of <a> in <b>."
\*   open    "If you choose <d>, be prepared to pay the tax of <a>."
TaxLine(tech, fmt, warning, timeframe) == Line("tax", tech, fmt, warning, timeframe)

\* the words after "the tax of", up to the full stop
TaxTail(line) ==
  line.a \o (IF line.f = "strict" THEN <<"in">> \o line.b ELSE <<>>)

TaxWords(line) ==
  <<"If", "you", "choose", line.d \o ",", "be", "prepared", "to", "pay",
    "the", "tax", "of">> \o TaxTail(line)

IsBlank(line) == line.k = "ws"

RECURSIVE TrimStart(_)
TrimStart(s) ==
  IF s = <<>> THEN <<>>
  ELSE IF IsBlank(Head(s)) THEN TrimStart(Tail(s)) ELSE s

RECURSIVE TrimEnd(_)
TrimEnd(s) ==
  IF s = <<>> THEN <<>>
  ELSE IF IsBlank(s[Len(s)]) THEN TrimEnd(SubSeq(s, 1, Len(s) - 1)) ELSE s

\* String.prototype.trim on a text
Trim(s) == TrimEnd(TrimStart(s))

\* smallest member of a set of indexes, or 0 when there is none
FirstOf(S) == IF S = {} THEN 0 ELSE CHOOSE i \in S : \A j \in S : i <= j

(* ---------------------------------------------------------------------- *)
(* extractSections                                                         *)
(* ---------------------------------------------------------------------- *)

SectionKeys == <<"matchup", "taleOfTheTape", "verdicts", "hiddenTax", "tieBreaker">>

Ok(data) == [success |-> TRUE, data |-> data]
Err(error) == [success |-> FALSE, error |-> error]

\* response.match(patterns[key]): the first heading line carrying the key's
\* ordinal starts the match; the lazy capture runs to the first later line
\* that starts with the next ordinal ("###\s*(n+1)\." in the lookahead) or to
\* the end of the text.  On an emoji heading the alternation (?:emoji|Label)
\* is satisfied by the emoji, so the label words stay in the capture.
MatchSection(text, i) ==
  LET key == SectionKeys[i]
      start == FirstOf({j \in 1..Len(text) :
                          text[j].k = "head" /\ text[j].d = key})
      stop == IF i < Len(SectionKeys)
              THEN FirstOf({j \in (start + 1)..Len(text) :
                              text[j].k = "head" /\ text[j].d = SectionKeys[i + 1]})
              ELSE 0
      last == IF stop = 0 THEN Len(text) ELSE stop - 1
      rest == TrimStart(SubSeq(text, start + 1, last))
  IN IF start = 0 THEN None
     ELSE [capture |-> IF text[start].f = "emoji"
                       THEN <<LabelText(key)>> \o SubSeq(text, start + 1, last)
                       ELSE rest]

\* the for-loop with a check that looks at the match only, not at its capture
RECURSIVE ExtractLoopUnchecked(_, _, _)
ExtractLoopUnchecked(text, i, found) ==
  IF i > Len(SectionKeys) THEN Ok(found)
  ELSE IF MatchSection(text, i) = None
  THEN Err([kind |-> "Missing or empty section", name |-> SectionKeys[i]])
  ELSE ExtractLoopUnchecked(text, i + 1,
         [k \in DOMAIN found \cup {SectionKeys[i]} |->
            IF k = SectionKeys[i] THEN Trim(MatchSection(text, i).capture) ELSE found[k]])

\* the for-loop over Object.entries(patterns)
RECURSIVE ExtractLoop(_, _, _)
ExtractLoop(text, i, found) ==
  IF i > Len(SectionKeys) THEN Ok(found)
  ELSE LET match == MatchSection(text, i)
       IN IF match = None \/ match.capture = <<>> \/ Trim(match.capture) = <<>>
          THEN Err([kind |-> "Missing or empty section", name |-> SectionKeys[i]])
          ELSE ExtractLoop(text, i + 1,
                 [k \in DOMAIN found \cup {SectionKeys[i]} |->
                    IF k = SectionKeys[i] THEN Trim(match.capture) ELSE found[k]])

extractSections(text) ==
  IF text = <<>> THEN Err([kind |-> "Response is not a valid string", name |-> ""])
  ELSE IF Trim(text) = <<>> THEN Err([kind |-> "Response is empty", name |-> ""])
  ELSE ExtractLoop(Trim(text), 1, <<>>)

(* ---------------------------------------------------------------------- *)
(* Text of a section as a stream of atoms                                  *)
(* ---------------------------------------------------------------------- *)

\* A row of the tape section in one of the layouts the patterns look for:
\*   table  "| d | a | b |"        colon  "d: a | b"      pipe  "d | a | b"
\*   bold   "**d** | a | b"        vs     "d - a vs b"
\* Separators are written with spaces around them, so an empty cell is a
\* run of spaces between two separators.
Row(layout, d, a, b) == Line("row", d, layout, a, b)

NL == "\n"

\* the words, pipes and punctuation of one line
Atoms(line) ==
  CASE line.k = "head" -> <<"###", line.d>>
    [] line.k = "row" /\ line.f = "table" ->
         <<"|", line.d, "|">> \o line.a \o <<"|">> \o line.b \o <<"|">>
    [] line.k = "row" /\ line.f = "colon" ->
         <<line.d, ":">> \o line.a \o <<"|">> \o line.b
    [] line.k = "row" /\ line.f = "pipe" ->
         <<line.d, "|">> \o line.a \o <<"|">> \o line.b
    [] line.k = "row" /\ line.f = "bold" ->
         <<"**", line.d, "**", "|">> \o line.a \o <<"|">> \o line.b
    [] line.k = "row" /\ line.f = "vs" ->
         <<line.d, "-">> \o line.a \o <<"vs">> \o line.b
    [] line.k = "scen" -> HeadingWords(line.d, line.f)
    [] line.k = "body" -> BodyWords(line)
    [] line.k = "tax" -> TaxWords(line)
    [] OTHER -> line.a \o line.b

\* the text of a sequence of lines, lines joined by newlines
RECURSIVE Flat(_)
Flat(text) ==
  IF text = <<>> THEN <<>>
  ELSE IF Len(text) = 1 THEN Atoms(text[1])
  ELSE Atoms(text[1]) \o <<NL>> \o Flat(Tail(text))

\* [A-Za-z0-9$] at the start of an atom
IsWord(x) == x \notin {"|", NL, ":", "-", "**", "###", "---", "?", "."}

\* String.prototype.toLowerCase on the vocabulary of the model
Lower(x) ==
  CASE x = "Speed" -> "speed"
    [] x = "Cost" -> "cost"
    [] x = "Developer Experience" -> "developer experience"
    [] x = "Experience" -> "experience"
    [] x = "Scalability" -> "scalability"
    [] x = "Maintainability" -> "maintainability"
    [] x = "Dimension" -> "dimension"
    [] x = "React" -> "react"
    [] x = "Vue" -> "vue"
    [] x = "Network" -> "network"
    [] x = "Request" -> "request"
    [] x = "C++" -> "c++"
    [] x = "Tax" -> "tax"
    [] x = "V" -> "v"
    [] OTHER -> x

\* String.prototype.includes between lower-case atoms
Includes(x, y) == x = y \/ <<x, y>> \in {<<"developer experience", "experience">>}

RECURSIVE TrimAtomsStart(_)
TrimAtomsStart(s) ==
  IF s = <<>> THEN <<>>
  ELSE IF Head(s) = NL THEN TrimAtomsStart(Tail(s)) ELSE s

RECURSIVE TrimAtomsEnd(_)
TrimAtomsEnd(s) ==
  IF s = <<>> THEN <<>>
  ELSE IF s[Len(s)] = NL THEN TrimAtomsEnd(SubSeq(s, 1, Len(s) - 1)) ELSE s

\* String.prototype.trim on a captured text
TrimAtoms(s) == TrimAtomsEnd(TrimAtomsStart(s))

\* index of the last atom of the line that holds index i
LineEnd(A, i) ==
  LET nl == FirstOf({j \in i..Len(A) : A[j] = NL})
  IN IF nl = 0 THEN Len(A) ELSE nl - 1

NoPipe(A, lo, hi) == \A j \in lo..hi : A[j] # "|"

\* index of the first pipe after index i, or 0
NextPipe(A, i) == FirstOf({j \in (i + 1)..Len(A) : A[j] = "|"})

(* ---------------------------------------------------------------------- *)
(* parseTaleOfTheTape                                                      *)
(* ---------------------------------------------------------------------- *)

dimensions == <<"Speed", "Cost", "Developer Experience", "Scalability", "Maintainability">>

\* dimensionKeyMap: label of a dimension -> key of ComparisonMatrix
DimensionKey(dim) ==
  CASE dim = "Speed" -> "speed"
    [] dim = "Cost" -> "cost"
    [] dim = "Developer Experience" -> "developerExperience"
    [] dim = "Scalability" -> "scalability"
    [] dim = "Maintainability" -> "maintainability"

\* dimension.toLowerCase().replace(/\s+/g, ''), the key the line-by-line phase
\* looks up to decide that a dimension was already found
NormalizedKey(dim) ==
  CASE dim = "Speed" -> "speed"
    [] dim = "Cost" -> "cost"
    [] dim = "Developer Experience" -> "developerexperience"
    [] dim = "Scalability" -> "scalability"
    [] dim = "Maintainability" -> "maintainability"

\* index of the n-th pipe of the text
NthPipe(A, n) ==
  CHOOSE j \in 1..Len(A) :
    A[j] = "|" /\ Cardinality({i \in 1..(j - 1) : A[i] = "|"}) = n - 1

\* number of elements of content.match(/\|[^|]*\|[^|]*\|[^|]*\|/g): [^|]* runs
\* over newlines, so every four consecutive pipes form one element
TableMatchCount(A) == Cardinality({j \in 1..Len(A) : A[j] = "|"}) \div 4

NonEmptyCell(c) == c # <<>>

\* row.split('|').map(cell => cell.trim()).filter(cell => cell) of element i
TableCells(A, i) ==
  LET p(n) == NthPipe(A, 4 * (i - 1) + n)
      cell(n) == TrimAtoms(SubSeq(A, p(n) + 1, p(n + 1) - 1))
  IN SelectSeq(<<cell(1), cell(2), cell(3)>>, NonEmptyCell)

\* dimensionName.toLowerCase().includes(dim.toLowerCase()) ||
\* dim.toLowerCase().includes(dimensionName.toLowerCase())
NameMatches(name, dim) ==
  \/ \E i \in 1..Len(name) : Includes(Lower(name[i]), Lower(dim))
  \/ Len(name) = 1 /\ Includes(Lower(dim), Lower(name[1]))

Put(comparison, key, v1, v2) ==
  [k \in DOMAIN comparison \cup {key} |->
     IF k = key THEN [tech1 |-> v1, tech2 |-> v2] ELSE comparison[k]]

\* dimensions.find(dim => ...) on the first cell of a row, or 0
FindDimension(cells) ==
  IF Len(cells) >= 3
  THEN FirstOf({k \in 1..Len(dimensions) : NameMatches(cells[1], dimensions[k])})
  ELSE 0

\* the body of the loop: a row of three cells with a known dimension is stored
StoreFound(comparison, cells, found) ==
  IF found = 0 THEN comparison
  ELSE Put(comparison, DimensionKey(dimensions[found]), cells[2], cells[3])

StoreRow(comparison, cells) == StoreFound(comparison, cells, FindDimension(cells))

\* the loop over the table rows, header and separator skipped
RECURSIVE TableLoop(_, _, _)
TableLoop(A, i, comparison) ==
  IF i > TableMatchCount(A) THEN comparison
  ELSE TableLoop(A, i + 1, StoreRow(comparison, TableCells(A, i)))

\* occurrences of the dimension label in the text, matched case-insensitively
Occurrences(A, dim) == {o \in 1..Len(A) : Lower(A[o]) = Lower(dim)}

At(A, i) == IF i \in 1..Len(A) THEN A[i] ELSE NL

\* last atom before index i that is not a newline, "" when there is none
Before(A, i) ==
  LET S == {j \in 1..(i - 1) : A[j] # NL}
  IN IF S = {} THEN "" ELSE A[CHOOSE j \in S : \A k \in S : k <= j]

Capture(c1, c2) == [c1 |-> c1, c2 |-> c2]

\* tail of patterns 3 and 4 from the pipe at index q:
\*   \|\s*([^|]+?)\s*\|\s*([^|]+?)(?=\n|$)
PipeTail(A, q) ==
  LET p == NextPipe(A, q)
  IN IF At(A, q) = "|" /\ p # 0 /\ p < Len(A) /\ A[p + 1] # NL
        /\ NoPipe(A, p + 1, LineEnd(A, p + 1))
     THEN Capture(SubSeq(A, q + 1, p - 1), SubSeq(A, p + 1, LineEnd(A, p + 1)))
     ELSE None

\* Pattern 1: \|\s*D\s*\|\s*([^|]+?)\s*\|\s*([^|]+?)\s*\|
Pattern1At(A, o) ==
  LET p2 == NextPipe(A, o + 1)
      p3 == IF p2 = 0 THEN 0 ELSE NextPipe(A, p2)
  IN IF Before(A, o) = "|" /\ At(A, o + 1) = "|" /\ p2 # 0 /\ p3 # 0
     THEN Capture(SubSeq(A, o + 2, p2 - 1), SubSeq(A, p2 + 1, p3 - 1))
     ELSE None

\* Pattern 2: D\s*[:|]\s*([^|\n]+?)\s*\|\s*([^|\n]+?)(?=\n|$)
Pattern2At(A, o) ==
  LET p == NextPipe(A, o + 1)
  IN IF At(A, o + 1) \in {":", "|"} /\ p # 0 /\ p <= LineEnd(A, o)
        /\ p < LineEnd(A, o) /\ NoPipe(A, p + 1, LineEnd(A, o))
     THEN Capture(SubSeq(A, o + 2, p - 1), SubSeq(A, p + 1, LineEnd(A, o)))
     ELSE None

\* Pattern 3: D\s*\|\s*([^|]+?)\s*\|\s*([^|]+?)(?=\n|$)
Pattern3At(A, o) == PipeTail(A, o + 1)

\* Pattern 4: \*\*D\*\*\s*\|\s*([^|]+?)\s*\|\s*([^|]+?)(?=\n|$)
Pattern4At(A, o) ==
  IF o > 1 /\ At(A, o - 1) = "**" /\ At(A, o + 1) = "**"
  THEN PipeTail(A, o + 2) ELSE None

\* Pattern 5: D\s*[-:]\s*([^\n]+?)\s+vs\s+([^\n]+?)(?=\n|$)
Pattern5At(A, o) ==
  LET v == FirstOf({j \in (o + 2)..LineEnd(A, o) : A[j] = "vs"})
  IN IF At(A, o + 1) \in {"-", ":"} /\ v # 0 /\ v < LineEnd(A, o)
     THEN Capture(SubSeq(A, o + 2, v - 1), SubSeq(A, v + 1, LineEnd(A, o)))
     ELSE None

\* Pattern 6: D[^\n]*?([A-Za-z0-9$][^|\n]*?)\s*[|\s]+([A-Za-z0-9$][^|\n]*?)(?=\n|$)
\* The first capture starts at the earliest word after D on D's line and is
\* as short as possible; only pipes and white space may lie between the two
\* captures; the second capture starts with a word and runs to the end of
\* its line without a pipe.
Second(A, e) == FirstOf({j \in (e + 1)..Len(A) : A[j] \notin {"|", NL}})

Ends(A, s) ==
  {e \in s..LineEnd(A, s) :
     /\ NoPipe(A, s, e)
     /\ Second(A, e) # 0
     /\ IsWord(A[Second(A, e)])
     /\ NoPipe(A, Second(A, e), LineEnd(A, Second(A, e)))}

Starts(A, o) == {s \in (o + 1)..LineEnd(A, o) : IsWord(A[s]) /\ Ends(A, s) # {}}

Pattern6At(A, o) ==
  IF Starts(A, o) = {} THEN None
  ELSE LET s == FirstOf(Starts(A, o))
           e == FirstOf(Ends(A, s))
           f == Second(A, e)
       IN Capture(SubSeq(A, s, e), SubSeq(A, f, LineEnd(A, f)))

PatternAt(i, A, o) ==
  CASE i = 1 -> Pattern1At(A, o)
    [] i = 2 -> Pattern2At(A, o)
    [] i = 3 -> Pattern3At(A, o)
    [] i = 4 -> Pattern4At(A, o)
    [] i = 5 -> Pattern5At(A, o)
    [] i = 6 -> Pattern6At(A, o)

PatternCount == 6

\* the match at the leftmost of the occurrences where the pattern matches
Leftmost(i, A, hits) == IF hits = {} THEN None ELSE PatternAt(i, A, FirstOf(hits))

\* trimmedContent.match(patterns[i]): the leftmost match of pattern i
PatternMatch(i, A, dim) ==
  Leftmost(i, A, {o \in Occurrences(A, dim) : PatternAt(i, A, o) # None})

\* match[1].trim().length > 0 && match[2].trim().length > 0
Usable(match) ==
  match # None /\ TrimAtoms(match.c1) # <<>> /\ TrimAtoms(match.c2) # <<>>

\* the loop over the patterns: break at the first usable match, otherwise the
\* variable keeps the result of the last pattern
RECURSIVE PatternLoop(_, _, _)
Break(A, dim, i, match) ==
  IF Usable(match) \/ i = PatternCount THEN match ELSE PatternLoop(A, dim, i + 1)

PatternLoop(A, dim, i) == Break(A, dim, i, PatternMatch(i, A, dim))

\* .replace(/^\*\*|\*\*$/g, '')
StripBold(c) ==
  LET c1 == IF c # <<>> /\ Head(c) = "**" THEN Tail(c) ELSE c
  IN IF c1 # <<>> /\ c1[Len(c1)] = "**" THEN SubSeq(c1, 1, Len(c1) - 1) ELSE c1

\* if (match) comparison[key] = { tech1: ..., tech2: ... }, bold markers removed
Store(comparison, dim, match) ==
  IF match = None THEN comparison
  ELSE Put(comparison, DimensionKey(dim),
           StripBold(TrimAtoms(match.c1)), StripBold(TrimAtoms(match.c2)))

\* the loop over the dimensions of the line-by-line phase
RECURSIVE LineLoop(_, _, _)
LineLoop(A, i, comparison) ==
  IF i > Len(dimensions) THEN comparison
  ELSE IF NormalizedKey(dimensions[i]) \in DOMAIN comparison
  THEN LineLoop(A, i + 1, comparison)
  ELSE LineLoop(A, i + 1, Store(comparison, dimensions[i], PatternLoop(A, dimensions[i], 1)))

\* the dimensions pushed on `missing`, by label
Missing(comparison) ==
  SelectSeq(dimensions, LAMBDA dim : DimensionKey(dim) \notin DOMAIN comparison)

\* the table phase: rows of a markdown table, when there are more than two
TablePhase(A) == IF TableMatchCount(A) > 2 THEN TableLoop(A, 3, <<>>) ELSE <<>>

\* the line-by-line phase, run when the table phase left a dimension out
LinePhase(A, table) ==
  IF Cardinality(DOMAIN table) < 5 THEN LineLoop(A, 1, table) ELSE table

\* the validation of the five dimensions and the return
Validate(comparison) ==
  IF Missing(comparison) # <<>>
  THEN Err([kind |-> "Missing comparison data for",
            missing |-> Missing(comparison),
            found |-> DOMAIN comparison])
  ELSE Ok(comparison)

parseTaleOfTheTape(content, t1, t2) ==
  IF content = <<>> THEN Err([kind |-> "Tale of the Tape content is not a valid string"])
  ELSE IF Trim(content) = <<>> THEN Err([kind |-> "Tale of the Tape content is empty"])
  ELSE IF t1 = "" \/ t2 = ""
  THEN Err([kind |-> "Technology names are invalid for Tale of the Tape parsing"])
  ELSE Validate(LinePhase(Flat(Trim(content)), TablePhase(Flat(Trim(content)))))

(* ---------------------------------------------------------------------- *)
(* parseScenarios                                                          *)
(* ---------------------------------------------------------------------- *)

scenarioNames == <<"Move Fast Team", "Scale Team", "Budget Team">>

\* name.replace(' Team', '')
TeamType(name) ==
  CASE name = "Move Fast Team" -> "Move Fast"
    [] name = "Scale Team" -> "Scale"
    [] name = "Budget Team" -> "Budget"

\* heading formats of patterns 1 to 4, in the order of the patterns
HeadingFormats == <<"single", "double", "hash", "colon">>

\* number of characters of words joined by single spaces
RECURSIVE CharLen(_)
CharLen(words) ==
  IF words = <<>> THEN 0
  ELSE Len(Head(words)) + (IF Len(words) > 1 THEN 1 ELSE 0) + CharLen(Tail(words))

\* String.prototype.length of a text: its lines and one separator between
\* two lines
RECURSIVE TextLen(_)
TextLen(text) ==
  IF text = <<>> THEN 0
  ELSE CharLen(Atoms(Head(text))) + (IF Len(text) > 1 THEN 1 ELSE 0)
       + TextLen(Tail(text))

\* trimmedContent.match(patterns[i]) for the team type.
\* Patterns 1 to 4 need the heading in their own format; the capture skips
\* leading white space and runs to the next "**Scenario" (patterns 1, 2, 4)
\* or the next "###" (pattern 3).  Patterns 5 and 6 accept the heading in
\* any format; their capture starts right after the word Team, so it holds
\* the tail of the heading, and runs to the next "Scenario [ABC]" or
\* "**...Team" (pattern 5), or to the next team type followed by Team
\* (pattern 6), so it holds the text of the next heading before that point.
\* A heading that is the name of the team alone has neither "Scenario" nor
\* "**" for pattern 5; pattern 6 captures the line break that follows it.
ScenarioPattern(i, text, team) ==
  LET mine(l) == /\ l.k = "scen" /\ l.d = team
                 /\ (i <= 4 => l.f = HeadingFormats[i])
                 /\ (i = 5 => l.f # "bare")
      start == FirstOf({j \in 1..Len(text) : mine(text[j])})
      stops(l) == CASE i \in {1, 2, 4} -> l.k = "scen" /\ l.f \notin {"hash", "bare"}
                    [] i = 3 -> l.k = "head" \/ (l.k = "scen" /\ l.f = "hash")
                    [] i = 5 -> l.k = "scen" /\ l.f # "bare"
                    [] OTHER -> l.k = "scen"
      stop == FirstOf({j \in (start + 1)..Len(text) : stops(text[j])})
      last == IF stop = 0 THEN Len(text) ELSE stop - 1
      between == SubSeq(text, start + 1, last)
      edge == IF stop = 0 \/ (i = 6 /\ text[stop].f = "bare") THEN <<>>
              ELSE IF i = 6 THEN <<Seg(HeadingPrefix(text[stop].d, text[stop].f))>>
              ELSE IF text[stop].f = "hash" THEN <<Seg(<<"###">>)>>
              ELSE <<>>
  IN IF start = 0 THEN None
     ELSE IF i <= 4 THEN [capture |-> TrimStart(between)]
     ELSE IF text[start].f = "bare"
     THEN [capture |-> (IF start < Len(text) THEN <<Blank>> ELSE <<>>) \o between \o edge]
     ELSE [capture |-> <<Seg(<<HeadingTail(text[start].f)>>)>> \o between \o edge]

ScenarioPatternCount == 6

\* match && match[1] && match[1].trim().length > 10
LongEnough(match) ==
  match # None /\ match.capture # <<>> /\ TextLen(Trim(match.capture)) > 10

\* the loop over the patterns: break at the first capture longer than ten
\* characters, otherwise the variable keeps the result of the last pattern
RECURSIVE LocateLoop(_, _, _)
LocateLoop(text, team, i) ==
  LET match == ScenarioPattern(i, text, team)
  IN IF LongEnough(match) \/ i = ScenarioPatternCount THEN match
     ELSE LocateLoop(text, team, i + 1)

\* a word that ends with "." "!" or "?"
SentenceEnd(w) ==
  w \in {"wins.", "wins?", "Why?", "all.", "alone.", "setup.", "TBD.", "Faster."}

\* [^.!?\n]*[.!?] : the words up to the first one that ends a sentence
Sentence(words) ==
  LET e == FirstOf({j \in 1..Len(words) : SentenceEnd(words[j])})
  IN IF e = 0 THEN None ELSE [capture |-> SubSeq(words, 1, e)]

\* scenarioContent.match(winnerPatterns[i]):
\*   1  /Which wins\?\s*([^.!?\n]*[.!?])/i      the sentence after "Which wins?"
\*   3  /([A-Za-z][A-Za-z0-9\s.+-]*)\s+wins/i   the words before "wins"
\* Patterns 2 and 4 to 7 need one of "Winner:", "wins:", "winner", "go with",
\* "choose", "pick", "use", "better", "preferred", "recommended", "advantage",
\* "benefit", "superior", none of which is written in a scenario block.
WinnerPattern(i, content) ==
  LET std == FirstOf({j \in 1..Len(content) :
                        content[j].k = "body" /\ content[j].f = "std"})
      xw == FirstOf({j \in 1..Len(content) :
                       content[j].k = "body" /\ content[j].f = "xwins"})
  IN CASE i = 1 /\ std # 0 -> Sentence(content[std].a \o <<"Why?">>)
       [] i = 3 /\ xw # 0 -> [capture |-> content[xw].a]
       [] OTHER -> None

WinnerPatternCount == 7

\* the loop over winnerPatterns: break at the first non-blank capture
RECURSIVE WinnerLoop(_, _)
WinnerLoop(content, i) ==
  LET winnerMatch == WinnerPattern(i, content)
  IN IF (winnerMatch # None /\ winnerMatch.capture # <<>>) \/ i = WinnerPatternCount
     THEN winnerMatch
     ELSE WinnerLoop(content, i + 1)

\* scenarioContent.match(reasoningPatterns[i]):
\*   1  /Why\?\s*([^]*?)(?=Which wins|$)/i
\*   2  /(?:Reason|Because):\s*([^]*?)$/i       (neither word is written)
\*   3  /(?:wins?|winner|better|preferred)\.?\s*([^]*?)$/i
\*   4  /([^]*)/
ReasoningPattern(i, content) ==
  LET isStd(l) == l.k = "body" /\ l.f = "std"
      std == FirstOf({j \in 1..Len(content) : isStd(content[j])})
      next == FirstOf({j \in (std + 1)..Len(content) : isStd(content[j])})
      wins == FirstOf({j \in 1..Len(content) :
                         content[j].k = "body" /\ content[j].f \in {"std", "xwins"}})
      after(l) == IF l.f = "std" THEN <<"?">> \o l.a \o <<"Why?">> \o l.b ELSE l.b
  IN CASE i = 1 /\ std # 0 ->
            [capture |-> <<Seg(content[std].b)>>
               \o SubSeq(content, std + 1, IF next = 0 THEN Len(content) ELSE next - 1)]
       [] i = 3 /\ wins # 0 ->
            [capture |-> <<Seg(after(content[wins]))>>
               \o SubSeq(content, wins + 1, Len(content))]
       [] i = 4 -> [capture |-> content]
       [] OTHER -> None

ReasoningPatternCount == 4

\* the loop over reasoningPatterns, followed by the two replacements of a
\* missing or short reasoning by the scenario content
RECURSIVE ReasoningLoop(_, _)
ReasoningLoop(content, i) ==
  LET reasoningMatch == ReasoningPattern(i, content)
  IN IF reasoningMatch # None /\ TextLen(Trim(reasoningMatch.capture)) > 10
     THEN reasoningMatch.capture
     ELSE IF i = ReasoningPatternCount THEN content
     ELSE ReasoningLoop(content, i + 1)

\* the words of a text
RECURSIVE AllWords(_)
AllWords(text) ==
  IF text = <<>> THEN <<>> ELSE Atoms(Head(text)) \o AllWords(Tail(text))

\* new RegExp(source) throws a SyntaxError ("Nothing to repeat") when the
\* source holds a quantifier that follows a quantifier
InvalidPattern(source) == source \in {"c++"}

\* (contentLower.match(new RegExp(name, 'g')) || []).length
Mentions(W, name) == Cardinality({j \in 1..Len(W) : Lower(W[j]) = name})

positiveWords ==
  <<<<"winner">>, <<"better">>, <<"preferred">>, <<"advantage">>, <<"superior">>,
    <<"recommended">>, <<"choose">>, <<"go", "with">>>>

\* contentLower.includes(x + ' ' + y)
Adjacent(W, x, y) ==
  LET xy == x \o y
  IN \E j \in 1..(Len(W) - Len(xy) + 1) :
       \A k \in 1..Len(xy) : Lower(W[j + k - 1]) = xy[k]

Context(W, name, word) == Adjacent(W, <<name>>, word) \/ Adjacent(W, word, <<name>>)

\* the loop over positiveWords
RECURSIVE ContextLoop(_, _, _, _)
ContextLoop(W, t1, t2, i) ==
  IF i > Len(positiveWords) THEN ""
  ELSE LET tech1Context == Context(W, Lower(t1), positiveWords[i])
           tech2Context == Context(W, Lower(t2), positiveWords[i])
       IN IF tech1Context /\ ~tech2Context THEN t1
          ELSE IF tech2Context /\ ~tech1Context THEN t2
          ELSE ContextLoop(W, t1, t2, i + 1)

\* the fallback without its last resort, the first name mentioned
FallbackWinnerByCount(content, t1, t2) ==
  LET W == AllWords(content)
      byContext == ContextLoop(W, t1, t2, 1)
  IN IF byContext # "" THEN byContext
     ELSE IF Mentions(W, Lower(t2)) > Mentions(W, Lower(t1)) THEN t2 ELSE t1

\* the fallback that picks a winner from the mentions of the two names
FallbackWinner(content, t1, t2) ==
  LET W == AllWords(content)
      byContext == ContextLoop(W, t1, t2, 1)
      tech1Mentions == Mentions(W, Lower(t1))
      tech2Mentions == Mentions(W, Lower(t2))
      firstMention == FirstOf({j \in 1..Len(W) : Lower(W[j]) \in {Lower(t1), Lower(t2)}})
  IN IF byContext # "" THEN byContext
     ELSE IF tech1Mentions > tech2Mentions THEN t1
     ELSE IF tech2Mentions > tech1Mentions THEN t2
     ELSE IF firstMention # 0 THEN W[firstMention] ELSE t1

\* an exception on its way out of a function
Throw(message) == [thrown |-> message]

IsThrown(r) == "thrown" \in DOMAIN r

\* a function body without its try/catch: the exception goes to the caller
CatchNothing(r, error) == r

\* try { ... } catch (error) { return { success: false, error: ... } }
Catch(r, error) == IF IsThrown(r) THEN Err(error) ELSE r

Verdict(name, winner, reasoning) ==
  [name |-> name, winner |-> winner, reasoning |-> reasoning]

ScenarioError(kind, name) == Err([kind |-> kind, name |-> name])

\* the loop over scenarioNames and the length check that follows it
RECURSIVE ScenarioLoop(_, _, _, _, _)
ScenarioLoop(text, t1, t2, i, found) ==
  IF i > Len(scenarioNames)
  THEN IF Len(found) # 3 THEN ScenarioError("Expected 3 scenarios", "") ELSE Ok(found)
  ELSE LET name == scenarioNames[i]
           match == LocateLoop(text, TeamType(name), 1)
           scenarioContent == Trim(match.capture)
           winnerMatch == WinnerLoop(scenarioContent, 1)
           reasoning == Trim(ReasoningLoop(scenarioContent, 1))
       IN IF match = None \/ match.capture = <<>>
          THEN ScenarioError("Missing scenario", name)
          ELSE IF winnerMatch # None /\ winnerMatch.capture # <<>>
          THEN ScenarioLoop(text, t1, t2, i + 1,
                 Append(found, Verdict(name, winnerMatch.capture, reasoning)))
          ELSE IF t1 = "" \/ t2 = ""
          THEN ScenarioError("Could not determine winner", name)
          ELSE IF InvalidPattern(Lower(t1)) \/ InvalidPattern(Lower(t2))
          THEN Throw("Invalid regular expression")
          ELSE ScenarioLoop(text, t1, t2, i + 1,
                 Append(found, Verdict(name,
                                       <<FallbackWinner(scenarioContent, t1, t2)>>,
                                       reasoning)))

parseScenarios(content, t1, t2) ==
  IF content = <<>> THEN ScenarioError("Verdicts content is not a valid string", "")
  ELSE IF Trim(content) = <<>> THEN ScenarioError("Verdicts content is empty", "")
  ELSE Catch(ScenarioLoop(Trim(content), t1, t2, 1, <<>>),
             [kind |-> "Scenarios parsing failed", name |-> ""])

(* ---------------------------------------------------------------------- *)
(* parseHiddenTax                                                          *)
(* ---------------------------------------------------------------------- *)

\* groups 1 to 3 of a match; <<>> stands for a group that is undefined
TaxCapture(c1, c2, c3) == [c1 |-> c1, c2 |-> c2, c3 |-> c3]

\* index of the last "in" that has words on both sides, or 0: the greedy
\* ([^.]+) before \s+in\s+ gives up as little as it can
LastIn(W) ==
  LET S == {j \in 2..(Len(W) - 1) : W[j] = "in"}
  IN IF S = {} THEN 0 ELSE CHOOSE j \in S : \A k \in S : k <= j

\* a word with a full stop inside it, and the part of it before the stop
HasStop(w) == w \in {"Node.js"}

BeforeStop(w) == IF w = "Node.js" THEN "Node" ELSE w

\* [^.]+ from the start of words: the words up to the first full stop, the
\* full stop that ends the sentence included
Run(W) ==
  LET k == FirstOf({j \in 1..Len(W) : HasStop(W[j])})
  IN IF k = 0 THEN W ELSE SubSeq(W, 1, k - 1) \o <<BeforeStop(W[k])>>

\* /If you choose\s+([^,]+),\s*be prepared to pay the tax of\s+([^.]+)\s+in\s+([^.]+)/i
StandardPattern(content) ==
  LET hit == FirstOf({j \in 1..Len(content) :
                        content[j].k = "tax" /\ LastIn(Run(TaxTail(content[j]))) # 0})
      W == Run(TaxTail(content[hit]))
  IN IF hit = 0 THEN None
     ELSE TaxCapture(<<content[hit].d>>, SubSeq(W, 1, LastIn(W) - 1),
                     SubSeq(W, LastIn(W) + 1, Len(W)))

TaxKeywords == {"tax", "cost", "downside", "problem"}

\* an atom written with the characters of [A-Za-z0-9\s.+-] only
PlainAtom(x) == x \notin {"\"", "|", ":", "**", "###", "?", "'", ","}

\* the first keyword after index e on the line of index e + 1 that has text
\* after it on its line, or 0
KeywordAfter(A, e) ==
  FirstOf({k \in (e + 1)..Len(A) :
             /\ Lower(A[k]) \in TaxKeywords
             /\ \A j \in (e + 1)..k : A[j] # NL
             /\ k < LineEnd(A, k)})

\* the ends the first group can have when it starts at index s
GroupEnds(A, s) ==
  {e \in s..Len(A) : (\A j \in s..e : PlainAtom(A[j])) /\ KeywordAfter(A, e) # 0}

\* /([A-Za-z][A-Za-z0-9\s.+-]+).*?(?:tax|cost|downside|problem).*?([^.!?\n]+)/i
\* The first group starts at the first word from which the pattern can
\* match and is as long as it can be while a keyword follows it on the line
\* where it ends; the second group is the rest of the keyword's line.
KeywordPattern(A) ==
  LET starts == {s \in 1..Len(A) : IsWord(A[s]) /\ PlainAtom(A[s]) /\ GroupEnds(A, s) # {}}
      s == FirstOf(starts)
      e == CHOOSE x \in GroupEnds(A, s) : \A y \in GroupEnds(A, s) : y <= x
      k == KeywordAfter(A, e)
  IN IF starts = {} THEN None
     ELSE TaxCapture(SubSeq(A, s, e), SubSeq(A, k + 1, LineEnd(A, k)), <<>>)

\* trimmedContent.match(alternativePatterns[i]), i counted from 0:
\*   0  the standard sentence with other punctuation
\*   1  the sentence without "in <timeframe>"
\*   2  /choose\s+([^,]+).*?tax.*?of\s+([^.!?\n]+).*?in\s+([^.!?\n]+)/i
\*   3  /tax\s+of\s+([^.!?\n]+)(?:\s+in\s+([^.!?\n]+))?/i : the greedy first
\*      group takes the timeframe with it, so the second group is undefined
\*   4  the keyword pattern
AlternativePattern(i, content) ==
  LET hit == FirstOf({j \in 1..Len(content) : content[j].k = "tax"})
  IN CASE i \in {0, 2} -> StandardPattern(content)
       [] i = 1 /\ hit # 0 -> TaxCapture(<<content[hit].d>>, Run(TaxTail(content[hit])), <<>>)
       [] i = 3 /\ hit # 0 -> TaxCapture(Run(TaxTail(content[hit])), <<>>, <<>>)
       [] i = 4 -> KeywordPattern(Flat(content))
       [] OTHER -> None

AlternativePatternCount == 5

DefaultTimeframe == <<"6", "months">>

\* the loop over alternativePatterns: break at the first match with groups 1
\* and 2, giving group 3 the default for the patterns before the last one
RECURSIVE AlternativeLoop(_, _)
Accept(content, i, taxMatch) ==
  IF taxMatch # None /\ taxMatch.c1 # <<>> /\ taxMatch.c2 # <<>>
  THEN IF taxMatch.c3 = <<>> /\ i < 4
       THEN TaxCapture(taxMatch.c1, taxMatch.c2, DefaultTimeframe)
       ELSE taxMatch
  ELSE IF i = AlternativePatternCount - 1 THEN taxMatch
  ELSE AlternativeLoop(content, i + 1)

AlternativeLoop(content, i) == Accept(content, i, AlternativePattern(i, content))

IsNotNewline(x) == x # NL

\* first element of matchAll(/\b([A-Za-z][A-Za-z0-9\s.+-]{2,20})\b/g): from the
\* first word, as many whole words as fit in 21 characters (a word of the
\* texts is shorter than that)
TechMatch(A) ==
  LET s == FirstOf({j \in 1..Len(A) : IsWord(A[j]) /\ PlainAtom(A[j])})
      ends == {e \in s..Len(A) : \A j \in s..e : PlainAtom(A[j])}
      r == CHOOSE x \in ends : \A y \in ends : y <= x
      W == SelectSeq(SubSeq(A, s, r), IsNotNewline)
      fits == {n \in 1..Len(W) : CharLen(SubSeq(W, 1, n)) \in 3..21}
  IN IF s = 0 \/ fits = {} THEN None
     ELSE [capture |-> SubSeq(W, 1, CHOOSE n \in fits : \A m \in fits : m <= n)]

WarningKeywords ==
  {"complexity", "maintenance", "cost", "overhead", "difficulty", "challenge",
   "problem", "issue", "burden"}

\* /(complexity|maintenance|learning curve|cost|...|burden)[^.!?\n]*/i
WarningMatch(A) ==
  LET k == FirstOf({j \in 1..Len(A) :
                      \/ Lower(A[j]) \in WarningKeywords
                      \/ (Lower(A[j]) = "learning" /\ At(A, j + 1) = "curve")})
  IN IF k = 0 THEN None ELSE [capture |-> SubSeq(A, k, LineEnd(A, k))]

HiddenTaxData(technology, warning, timeframe) ==
  [technology |-> technology, warning |-> warning, timeframe |-> timeframe,
   impact |-> warning \o <<"expected", "in">> \o timeframe]

TaxError(kind) == Err([kind |-> kind])

\* the standard pattern first, the alternative patterns when it fails
FindMatch(trimmedContent, first) ==
  IF first = None THEN AlternativeLoop(trimmedContent, 0) ELSE first

\* the fallback that looks for a technology and a warning anywhere
Fallback(techMatch, warningMatch) ==
  IF techMatch # None /\ warningMatch # None
  THEN Ok(HiddenTaxData(TrimAtoms(techMatch.capture), TrimAtoms(warningMatch.capture),
                        DefaultTimeframe))
  ELSE TaxError("Hidden Tax format does not match expected pattern")

\* the validation of the extracted content and the return
Extracted(technology, warning, timeframe) ==
  IF technology = <<>> THEN TaxError("Technology name is empty in Hidden Tax")
  ELSE IF warning = <<>> THEN TaxError("Warning text is empty in Hidden Tax")
  ELSE Ok(HiddenTaxData(technology, warning, timeframe))

Extract(A, taxMatch) ==
  IF taxMatch = None \/ taxMatch.c1 = <<>> \/ taxMatch.c2 = <<>>
  THEN Fallback(TechMatch(A), WarningMatch(A))
  ELSE Extracted(TrimAtoms(taxMatch.c1), TrimAtoms(taxMatch.c2),
                 IF taxMatch.c3 # <<>> THEN TrimAtoms(taxMatch.c3) ELSE DefaultTimeframe)

parseHiddenTax(content) ==
  IF content = <<>> THEN TaxError("Hidden Tax content is not a valid string")
  ELSE IF Trim(content) = <<>> THEN TaxError("Hidden Tax content is empty")
  ELSE Extract(Flat(Trim(content)),
               FindMatch(Trim(content), StandardPattern(Trim(content))))

(* ---------------------------------------------------------------------- *)
(* Tape texts the parser is run on                                        *)
(* ---------------------------------------------------------------------- *)

MaxDefects == 2

\* the clock runs from 0 to MaxClock milliseconds
MaxClock == 1

Layouts == {"table", "colon", "pipe", "bold", "vs"}

\* state of the row of one dimension: written out, deleted, first cell left
\* empty, first cell holding only bold markers, first cell mentioning speed
RowStates == {"ok", "del", "blank", "bold", "mention"}

Plain1 == <<"Fast", "startup">>
Plain2 == <<"Optimized", "runtime">>

FirstCell(state) ==
  CASE state = "blank" -> <<>>
    [] state = "bold" -> <<"**">>
    [] state = "mention" -> <<"more", "speed", "later">>
    [] OTHER -> Plain1

TableHeader == Row("table", "Dimension", <<"React">>, <<"Vue">>)
TableSeparator == Row("table", "---", <<"---">>, <<"---">>)

IsLine(l) == l # None

TapeLines(layout, st) ==
  (IF layout = "table" THEN <<TableHeader, TableSeparator>> ELSE <<>>)
  \o SelectSeq([i \in 1..Len(dimensions) |->
                  IF st[i] = "del" THEN None
                  ELSE Row(layout, dimensions[i], FirstCell(st[i]), Plain2)],
               IsLine)

TapeStates ==
  {st \in [1..Len(dimensions) -> RowStates] :
     Cardinality({i \in 1..Len(dimensions) : st[i] # "ok"}) <= MaxDefects}

TapeTexts == {TapeLines(layout, st) : layout \in Layouts, st \in TapeStates}

\* states of the rows of a table that lacks the row of dimension i
MixedStates(i) ==
  {st \in TapeStates : \A j \in 1..Len(dimensions) :
                         /\ st[j] = "del" <=> j = i
                         /\ st[j] \in {"ok", "bold", "del"}}

\* tapes with a table that lacks the row of one dimension, which is written
\* under the table as "Dimension: a | b"
MixedTapes ==
  UNION {{TapeLines("table", st) \o <<Row("colon", dimensions[i], Plain1, Plain2)>> :
            st \in MixedStates(i)} : i \in 1..Len(dimensions)}

(* ---------------------------------------------------------------------- *)
(* Verdict texts the parser is run on                                      *)
(* ---------------------------------------------------------------------- *)

\* state of the block of one team: the standard sentence pair, the pair
\* with a short reasoning, "<name> wins ...", prose that names no
\* technology, a body of four characters, prose that names the second
\* technology, prose that names the second technology and then the first,
\* block deleted
BlockStates == {"std", "stdshort", "xwins", "nowin", "short", "mention", "both", "del"}

BodyOf(state, t1, t2) ==
  CASE state = "std" ->
         Body("std", <<t1, "wins.">>, <<"Ships", "faster", "with", "less", "setup.">>)
    [] state = "stdshort" -> Body("std", <<t1, "wins.">>, <<"Faster.">>)
    [] state = "xwins" -> Body("xwins", <<t1>>, <<"on", "delivery", "speed", "alone.">>)
    [] state = "nowin" ->
         Body("plain", <<>>, <<"Ships", "in", "2", "days", "with", "no", "setup", "at", "all.">>)
    [] state = "short" -> Body("plain", <<>>, <<"TBD.">>)
    [] state = "mention" ->
         Body("plain", <<>>, <<t2, "ships", "in", "2", "days", "with", "no", "setup.">>)
    [] state = "both" ->
         Body("plain", <<>>, <<t2, "or", t1, "ships", "in", "2", "days", "with", "no", "setup.">>)

RECURSIVE Blocks(_, _, _, _, _)
Blocks(fmt, st, t1, t2, i) ==
  IF i > Len(scenarioNames) THEN <<>>
  ELSE (IF st[i] = "del" THEN <<>>
        ELSE IF st[i] = "empty" THEN <<ScenarioHeading(TeamType(scenarioNames[i]), fmt)>>
        ELSE <<ScenarioHeading(TeamType(scenarioNames[i]), fmt), BodyOf(st[i], t1, t2)>>)
       \o Blocks(fmt, st, t1, t2, i + 1)

VerdictLines(fmt, st, t1, t2) == Blocks(fmt, st, t1, t2, 1)

VerdictStates == [1..Len(scenarioNames) -> BlockStates]

(* ---------------------------------------------------------------------- *)
(* Hidden tax texts the parser is run on                                   *)
(* ---------------------------------------------------------------------- *)

\* the sentence with its timeframe, the sentence without it, prose without
\* a keyword, prose with a warning keyword, prose with a tax keyword
TaxStates == {"strict", "open", "junk", "hint", "costly"}

TaxLineOf(state, t1) ==
  CASE state = "strict" -> TaxLine(t1, "strict", <<"decision", "fatigue">>, <<"6", "months">>)
    [] state = "open" -> TaxLine(t1, "open", <<"decision", "fatigue">>, <<>>)
    [] state = "junk" -> Prose
    [] state = "hint" -> Line("txt", "", "", <<"Expect", "maintenance", "burden", "later">>, <<>>)
    [] state = "costly" -> Line("txt", "", "", <<"Expected", "cost", "grows", "later">>, <<>>)

\* warnings a sentence is written with: plain words, words with "in" among
\* them, a word with a full stop inside it, one word
TaxWarnings ==
  {<<"decision", "fatigue">>, <<"churn", "in", "tooling">>, <<"Node.js", "churn">>,
   <<"lock-in">>}

\* timeframes a sentence is written with; <<>> is the sentence without its
\* "in <timeframe>" clause
TaxTimeframes == {<<>>, <<"6", "months">>, <<"2", "years">>}

TaxSentence(tech, warning, timeframe) ==
  TaxLine(tech, IF timeframe = <<>> THEN "open" ELSE "strict", warning, timeframe)

\* hidden tax sections: a sentence about one of the two technologies, or prose
TaxTexts(t1, t2) ==
  {<<TaxSentence(tech, warning, timeframe)>> :
     tech \in {t1, t2}, warning \in TaxWarnings, timeframe \in TaxTimeframes}
  \cup {<<TaxLineOf(state, t1)>> : state \in {"junk", "hint", "costly"}}

(* ---------------------------------------------------------------------- *)
(* Replies of the language model                                           *)
(* ---------------------------------------------------------------------- *)

Styles == {"plain", "emoji"}

\* state of one section of a reply: heading and content written, heading
\* followed by a blank line, heading line deleted, heading and content deleted
SectionStates == {"ok", "blank", "nohead", "gone"}

Question == Line("txt", "", "", <<"Do", "you", "need", "results", "now?">>, <<>>)

\* the name a reply writes for a technology of the request
Written(name) == IF name = "" THEN "React" ELSE name

Section(style, state, key, content) ==
  CASE state = "ok" -> <<Heading(key, style)>> \o content
    [] state = "blank" -> <<Heading(key, style), Blank>>
    [] state = "nohead" -> content
    [] state = "gone" -> <<>>

\* the five sections in their order
Reply(style, sec, tape, verdicts, tax) ==
  Section(style, sec[1], SectionKeys[1], <<Prose>>)
  \o Section(style, sec[2], SectionKeys[2], tape)
  \o Section(style, sec[3], SectionKeys[3], verdicts)
  \o Section(style, sec[4], SectionKeys[4], tax)
  \o Section(style, sec[5], SectionKeys[5], <<Question>>)

AllOk == [i \in 1..Len(SectionKeys) |-> "ok"]
AllRows == [i \in 1..Len(dimensions) |-> "ok"]
AllStd == [i \in 1..Len(scenarioNames) |-> "std"]

StandardTape == TapeLines("table", AllRows)
StandardVerdicts(t1, t2) == VerdictLines("single", AllStd, Written(t1), Written(t2))
StandardTax(t1) == <<TaxLineOf("strict", Written(t1))>>

SectionDefects ==
  {sec \in [1..Len(SectionKeys) -> SectionStates] :
     Cardinality({i \in 1..Len(SectionKeys) : sec[i] # "ok"}) <= MaxDefects}

\* contents the sections of a reply are filled with
TapeChoices == {StandardTape, TapeLines("table", [AllRows EXCEPT ![1] = "del"])}

VerdictChoices(t1, t2) ==
  {StandardVerdicts(t1, t2),
   VerdictLines("single", [AllStd EXCEPT ![2] = "nowin"], Written(t1), Written(t2))}

TaxChoices(t1) == {StandardTax(t1), <<TaxLineOf("junk", Written(t1))>>}

Replies(t1, t2) ==
  {Reply(style, sec, tape, verdicts, tax) :
     style \in Styles, sec \in SectionDefects, tape \in TapeChoices,
     verdicts \in VerdictChoices(t1, t2), tax \in TaxChoices(t1)}
  \cup {<<>>, <<Blank>>}

NamePairs == {<<"React", "Vue">>, <<"C++", "Vue">>, <<"", "Vue">>}

(* ---------------------------------------------------------------------- *)
(* Replies written on the template of the prompt                           *)
(* ---------------------------------------------------------------------- *)

\* descriptors the first row is written with: plain words, bold markers
\* alone, words that start with a dollar sign
TemplateDescriptors == {Plain1, <<"**">>, <<"$0", "start", "cost">>}

\* reasonings the second scenario is written with: a sentence, one short word
TemplateReasonings == {<<"Ships", "faster", "with", "less", "setup.">>, <<"Faster.">>}

\* timeframes a strictly punctuated sentence is written with
TemplateTimeframes == TaxTimeframes \ {<<>>}

\* tie-breaker questions
TemplateQuestions == {Question, Line("txt", "", "", <<"Speed", "or", "safety?">>, <<>>)}

\* the five-row table with `descriptor` as first descriptor of Speed
TemplateTape(descriptor) ==
  <<TableHeader, TableSeparator, Row("table", dimensions[1], descriptor, Plain2)>>
  \o SubSeq(StandardTape, 4, Len(StandardTape))

\* the three blocks with `winner` in the first and `reasoning` in the second
TemplateVerdicts(winner, reasoning, t1) ==
  <<ScenarioHeading(TeamType(scenarioNames[1]), "single"),
    Body("std", <<winner, "wins.">>, <<"Ships", "faster", "with", "less", "setup.">>),
    ScenarioHeading(TeamType(scenarioNames[2]), "single"),
    Body("std", <<t1, "wins.">>, reasoning),
    ScenarioHeading(TeamType(scenarioNames[3]), "single"),
    BodyOf("std", t1, t1)>>

\* a reply with every section written as the prompt asks for it
Template(style, descriptor, winner, reasoning, tax, question, t1) ==
  <<Heading(SectionKeys[1], style), Prose, Heading(SectionKeys[2], style)>>
  \o TemplateTape(descriptor)
  \o <<Heading(SectionKeys[3], style)>>
  \o TemplateVerdicts(winner, reasoning, t1)
  \o <<Heading(SectionKeys[4], style), tax, Heading(SectionKeys[5], style), question>>

(* ---------------------------------------------------------------------- *)
(* parseLLMResponse                                                        *)
(* ---------------------------------------------------------------------- *)

\* a failure whose details tell whether the function was called before
FailureRemembering(message, details) ==
  [success |-> FALSE,
   error |-> [code |-> "PARSING_ERROR", message |-> message,
              details |-> IF earlier = None THEN details ELSE "called before",
              timestamp |-> now]]

\* { success: false, error: { code, message, details, timestamp } } with
\* timestamp: new Date().toISOString()
Failure(message, details) ==
  [success |-> FALSE,
   error |-> [code |-> "PARSING_ERROR", message |-> message, details |-> details,
              timestamp |-> now]]

\* the RefereeAnalysis of the final return
Analysis(t1, t2, tape, verdicts, tax, tieBreaker) ==
  [matchup |-> [technology1 |-> t1, technology2 |-> t2],
   taleOfTheTape |-> tape, scenarios |-> verdicts, hiddenTax |-> tax,
   tieBreaker |-> tieBreaker]

\* a return statement that hands nothing to the caller
ReturnNothing(outcomes, outcome) == outcomes

\* a return statement: the outcome is handed to the caller
Return(outcomes, outcome) == Append(outcomes, outcome)

\* the body of the function with the hidden tax parsed before the scenarios
AfterSwapped(stage) ==
  CASE stage = "validate" -> "extract"
    [] stage = "extract" -> "tape"
    [] stage = "tape" -> "hiddenTax"
    [] stage = "hiddenTax" -> "scenarios"
    [] stage = "scenarios" -> "tieBreaker"
    [] stage = "tieBreaker" -> "done"

\* the statement that follows a stage in the body of the function
After(stage) ==
  CASE stage = "validate" -> "extract"
    [] stage = "extract" -> "tape"
    [] stage = "tape" -> "scenarios"
    [] stage = "scenarios" -> "hiddenTax"
    [] stage = "hiddenTax" -> "tieBreaker"
    [] stage = "tieBreaker" -> "done"

\* control after a check that lacks the return of the tape stage
GotoPastTape(ok, stage) ==
  IF ok \/ stage = "tape"
  THEN CASE stage = "validate" -> "extract"
         [] stage = "extract" -> "tape"
         [] stage = "tape" -> "scenarios"
         [] stage = "scenarios" -> "hiddenTax"
         [] stage = "hiddenTax" -> "tieBreaker"
         [] stage = "tieBreaker" -> "done"
  ELSE "done"

\* control after the check of a stage: the function returns on a failure
Goto(ok, stage) == IF ok THEN After(stage) ELSE "done"

\* if (!r.success) return { success: false, error: ... } after a parser call;
\* an exception that comes out of the call goes to the catch of the function
Check(r, message, stage) ==
  /\ result' = IF IsThrown(r)
               THEN Return(result, Failure("Unexpected error parsing LLM response", r.thrown))
               ELSE IF r.success THEN result
               ELSE Return(result, Failure(message, r.error))
  /\ pc' = Goto(~IsThrown(r) /\ r.success, stage)

\* the two checks of the parameters
ValidateInput ==
  /\ pc = "validate"
  /\ LET noResponse == response = <<>> \/ Trim(response) = <<>>
         noNames == tech1 = "" \/ tech2 = ""
     IN /\ result' =
             IF noResponse
             THEN Return(result, Failure("LLM response is empty or invalid",
                                         "Response must be a non-empty string"))
             ELSE IF noNames
             THEN Return(result, Failure("Technology names are invalid",
                                         "Both tech1 and tech2 must be non-empty strings"))
             ELSE result
        /\ pc' = Goto(~noResponse /\ ~noNames, "validate")
  /\ UNCHANGED <<response, tech1, tech2, sections, taleOfTheTape, scenarios,
                 hiddenTax, calls>>
  /\ UNCHANGED outside

CallExtractSections ==
  /\ pc = "extract"
  /\ sections' = extractSections(response)
  /\ Check(sections', "Failed to parse LLM response structure", "extract")
  /\ calls' = Append(calls, "extractSections")
  /\ UNCHANGED <<response, tech1, tech2, taleOfTheTape, scenarios, hiddenTax>>
  /\ UNCHANGED outside

CallParseTaleOfTheTape ==
  /\ pc = "tape"
  /\ taleOfTheTape' = parseTaleOfTheTape(sections.data.taleOfTheTape, tech1, tech2)
  /\ Check(taleOfTheTape', "Failed to parse Tale of the Tape section", "tape")
  /\ calls' = Append(calls, "parseTaleOfTheTape")
  /\ UNCHANGED <<response, tech1, tech2, sections, scenarios, hiddenTax>>
  /\ UNCHANGED outside

CallParseScenarios ==
  /\ pc = "scenarios"
  /\ scenarios' = parseScenarios(sections.data.verdicts, tech1, tech2)
  /\ Check(scenarios', "Failed to parse Verdicts section", "scenarios")
  /\ calls' = Append(calls, "parseScenarios")
  /\ UNCHANGED <<response, tech1, tech2, sections, taleOfTheTape, hiddenTax>>
  /\ UNCHANGED outside

CallParseHiddenTax ==
  /\ pc = "hiddenTax"
  /\ hiddenTax' = parseHiddenTax(sections.data.hiddenTax)
  /\ Check(hiddenTax', "Failed to parse Hidden Tax section", "hiddenTax")
  /\ calls' = Append(calls, "parseHiddenTax")
  /\ UNCHANGED <<response, tech1, tech2, sections, taleOfTheTape, scenarios>>
  /\ UNCHANGED outside

\* the tie-breaker check and the final return
ExtractTieBreaker ==
  /\ pc = "tieBreaker"
  /\ LET tieBreaker == Trim(sections.data.tieBreaker)
     IN result' =
          Return(result,
                 IF tieBreaker = <<>>
                 THEN Failure("Tie-breaker question is missing or empty", "")
                 ELSE Ok(Analysis(tech1, tech2, taleOfTheTape.data, scenarios.data,
                                  hiddenTax.data, tieBreaker)))
  /\ pc' = "done"
  /\ UNCHANGED <<response, tech1, tech2, sections, taleOfTheTape, scenarios,
                 hiddenTax, calls>>
  /\ UNCHANGED outside

Init ==
  /\ \E names \in NamePairs :
       /\ tech1 = names[1]
       /\ tech2 = names[2]
       /\ response \in Replies(names[1], names[2])
  /\ pc = "validate"
  /\ sections = None
  /\ taleOfTheTape = None
  /\ scenarios = None
  /\ hiddenTax = None
  /\ result = <<>>
  /\ calls = <<>>
  /\ now \in 0..MaxClock
  /\ earlier = None
  /\ nodeEnv = "production"
  /\ Loaded

Next ==
  \/ ValidateInput
  \/ CallExtractSections
  \/ CallParseTaleOfTheTape
  \/ CallParseScenarios
  \/ CallParseHiddenTax
  \/ ExtractTieBreaker

Spec == Init /\ [][Next]_vars

\* a millisecond passes
Tick ==
  /\ now < MaxClock
  /\ now' = now + 1
  /\ UNCHANGED <<response, tech1, tech2, pc, sections, taleOfTheTape, scenarios,
                 hiddenTax, result, calls, earlier>>
  /\ UNCHANGED server

\* parseLLMResponse is called a second time with the same reply and names
CallAgain ==
  /\ pc = "done"
  /\ earlier = None
  /\ earlier' = result[1]
  /\ pc' = "validate"
  /\ sections' = None
  /\ taleOfTheTape' = None
  /\ scenarios' = None
  /\ hiddenTax' = None
  /\ result' = <<>>
  /\ calls' = <<>>
  /\ UNCHANGED <<response, tech1, tech2, now>>
  /\ UNCHANGED server

NextTwice ==
  \/ Next
  \/ Tick
  \/ CallAgain

SpecTwice == Init /\ [][NextTwice]_vars

(* ---------------------------------------------------------------------- *)
(* The parsers on their own, from the state in which parseLLMResponse      *)
(* calls them                                                              *)
(* ---------------------------------------------------------------------- *)

\* no time has passed and parseLLMResponse was not called before
AtStart == now = 0 /\ earlier = None /\ nodeEnv = "production" /\ Loaded

\* names that pass the checks of the parameters
ValidNames == {names \in NamePairs : names[1] # "" /\ names[2] # ""}

\* parseLLMResponse about to call parseTaleOfTheTape on a tape section
InitTape ==
  /\ \E names \in ValidNames, style \in Styles, tape \in TapeTexts :
       /\ tech1 = names[1]
       /\ tech2 = names[2]
       /\ response = Reply(style, AllOk, tape, StandardVerdicts(names[1], names[2]),
                           StandardTax(names[1]))
  /\ sections = extractSections(response)
  /\ sections.success
  /\ pc = "tape"
  /\ taleOfTheTape = None
  /\ scenarios = None
  /\ hiddenTax = None
  /\ result = <<>>
  /\ calls = <<"extractSections">>
  /\ AtStart

SpecTape == InitTape /\ [][CallParseTaleOfTheTape]_vars

\* parseLLMResponse about to call parseTaleOfTheTape on a table and a line
InitMixed ==
  /\ \E names \in ValidNames, style \in Styles, tape \in MixedTapes :
       /\ tech1 = names[1]
       /\ tech2 = names[2]
       /\ response = Reply(style, AllOk, tape, StandardVerdicts(names[1], names[2]),
                           StandardTax(names[1]))
  /\ sections = extractSections(response)
  /\ sections.success
  /\ pc = "tape"
  /\ taleOfTheTape = None
  /\ scenarios = None
  /\ hiddenTax = None
  /\ result = <<>>
  /\ calls = <<"extractSections">>
  /\ AtStart

SpecMixed == InitMixed /\ [][CallParseTaleOfTheTape]_vars

\* parseLLMResponse about to call parseScenarios on a verdicts section
InitScen ==
  /\ \E names \in ValidNames, style \in Styles, fmt \in 1..Len(HeadingFormats),
        st \in VerdictStates :
       /\ tech1 = names[1]
       /\ tech2 = names[2]
       /\ response = Reply(style, AllOk, StandardTape,
                           VerdictLines(HeadingFormats[fmt], st, names[1], names[2]),
                           StandardTax(names[1]))
  /\ sections = extractSections(response)
  /\ sections.success
  /\ taleOfTheTape = parseTaleOfTheTape(sections.data.taleOfTheTape, tech1, tech2)
  /\ taleOfTheTape.success
  /\ pc = "scenarios"
  /\ scenarios = None
  /\ hiddenTax = None
  /\ result = <<>>
  /\ calls = <<"extractSections", "parseTaleOfTheTape">>
  /\ AtStart

SpecScen == InitScen /\ [][CallParseScenarios]_vars

\* states of the blocks under headings that are the name of the team alone;
\* "empty" is a heading with no text under it
BareStates == [1..Len(scenarioNames) -> {"std", "nowin", "short", "empty"}]

\* parseLLMResponse about to call parseScenarios on such a verdicts section
InitBare ==
  /\ \E names \in ValidNames, style \in Styles, st \in BareStates :
       /\ tech1 = names[1]
       /\ tech2 = names[2]
       /\ response = Reply(style, AllOk, StandardTape,
                           VerdictLines("bare", st, names[1], names[2]),
                           StandardTax(names[1]))
  /\ sections = extractSections(response)
  /\ sections.success
  /\ taleOfTheTape = parseTaleOfTheTape(sections.data.taleOfTheTape, tech1, tech2)
  /\ taleOfTheTape.success
  /\ pc = "scenarios"
  /\ scenarios = None
  /\ hiddenTax = None
  /\ result = <<>>
  /\ calls = <<"extractSections", "parseTaleOfTheTape">>
  /\ AtStart

SpecBare == InitBare /\ [][CallParseScenarios]_vars

\* parseLLMResponse about to call parseHiddenTax on a hidden tax section
InitTax ==
  /\ \E names \in ValidNames, style \in Styles :
       /\ tech1 = names[1]
       /\ tech2 = names[2]
       /\ \E tax \in TaxTexts(names[1], names[2]) :
            response = Reply(style, AllOk, StandardTape,
                             StandardVerdicts(names[1], names[2]), tax)
  /\ sections = extractSections(response)
  /\ sections.success
  /\ taleOfTheTape = parseTaleOfTheTape(sections.data.taleOfTheTape, tech1, tech2)
  /\ taleOfTheTape.success
  /\ scenarios = parseScenarios(sections.data.verdicts, tech1, tech2)
  /\ scenarios.success
  /\ pc = "hiddenTax"
  /\ hiddenTax = None
  /\ result = <<>>
  /\ calls = <<"extractSections", "parseTaleOfTheTape", "parseScenarios">>
  /\ AtStart

SpecTax == InitTax /\ [][CallParseHiddenTax]_vars

\* parseLLMResponse called on a reply written on the template
InitTemplate ==
  /\ \E names \in ValidNames, style \in Styles :
       /\ tech1 = names[1]
       /\ tech2 = names[2]
       /\ \E descriptor \in TemplateDescriptors, winner \in {names[1], names[2]},
             reasoning \in TemplateReasonings, tech \in {names[1], names[2]},
             warning \in TaxWarnings, timeframe \in TemplateTimeframes,
             question \in TemplateQuestions :
            response = Template(style, descriptor, winner, reasoning,
                                TaxSentence(tech, warning, timeframe), question,
                                names[1])
  /\ pc = "validate"
  /\ sections = None
  /\ taleOfTheTape = None
  /\ scenarios = None
  /\ hiddenTax = None
  /\ result = <<>>
  /\ calls = <<>>
  /\ AtStart

SpecTemplate == InitTemplate /\ [][Next]_vars

(* ---------------------------------------------------------------------- *)
(* POST /api/referee                                                       *)
(* ---------------------------------------------------------------------- *)

RATE_LIMIT_WINDOW == 60000
RATE_LIMIT_MAX_REQUESTS == 10

\* the longest log of admitted requests that is kept
MaxAdmitted == 12

\* NextResponse.json({ success: false, error }, { status }); the details
\* text, which the handler never reads, is left out
createErrorResponse(code, message, status) ==
  [status |-> status,
   body |-> [success |-> FALSE,
             error |-> [code |-> code, message |-> message, timestamp |-> now]]]

\* rateLimitMap.set(clientId, data)
MapSet(map, clientId, data) ==
  [c \in DOMAIN map \cup {clientId} |-> IF c = clientId THEN data ELSE map[c]]

\* checkRateLimit with a limit that is reached one request later
checkRateLimitLate(clientId) ==
  IF nodeEnv = "test" THEN [allowed |-> TRUE, map |-> rateLimitMap]
  ELSE IF clientId \notin DOMAIN rateLimitMap \/ now > rateLimitMap[clientId].resetTime
  THEN [allowed |-> TRUE,
        map |-> MapSet(rateLimitMap, clientId,
                       [count |-> 1, resetTime |-> now + RATE_LIMIT_WINDOW])]
  ELSE IF rateLimitMap[clientId].count > RATE_LIMIT_MAX_REQUESTS
  THEN [allowed |-> FALSE, map |-> rateLimitMap]
  ELSE [allowed |-> TRUE,
        map |-> MapSet(rateLimitMap, clientId,
                       [count |-> rateLimitMap[clientId].count + 1,
                        resetTime |-> rateLimitMap[clientId].resetTime])]

\* checkRateLimit(clientId): what it returns and the map it leaves
checkRateLimit(clientId) ==
  IF nodeEnv = "test" THEN [allowed |-> TRUE, map |-> rateLimitMap]
  ELSE IF clientId \notin DOMAIN rateLimitMap \/ now > rateLimitMap[clientId].resetTime
  THEN [allowed |-> TRUE,
        map |-> MapSet(rateLimitMap, clientId,
                       [count |-> 1, resetTime |-> now + RATE_LIMIT_WINDOW])]
  ELSE IF rateLimitMap[clientId].count >= RATE_LIMIT_MAX_REQUESTS
  THEN [allowed |-> FALSE, map |-> rateLimitMap]
  ELSE [allowed |-> TRUE,
        map |-> MapSet(rateLimitMap, clientId,
                       [count |-> rateLimitMap[clientId].count + 1,
                        resetTime |-> rateLimitMap[clientId].resetTime])]

\* values of a field of a JSON body
Undefined == [t |-> "undefined", s |-> ""]
Null == [t |-> "null", s |-> ""]
Number == [t |-> "number", s |-> ""]
String(s) == [t |-> "string", s |-> s]

\* String.prototype.trim on the names of the model
TrimName(s) ==
  CASE s = " " -> ""
    [] s = " React " -> "React"
    [] OTHER -> s

\* String.prototype.length on the names of the model
NameLength(s) ==
  CASE s = "" -> 0
    [] s \in {" ", "V"} -> 1
    [] s \in {"Vue", "<b>"} -> 3
    [] s \in {"React", "react"} -> 5
    [] s \in {"reactjs", " React "} -> 7

\* validateTechnologyField(value, fieldName)
validateTechnologyField(value, fieldName) ==
  IF value.t = "undefined"
  THEN [isValid |-> FALSE, message |-> fieldName \o " field is required"]
  ELSE IF value.t = "null"
  THEN [isValid |-> FALSE, message |-> fieldName \o " field cannot be null"]
  ELSE IF value.t # "string"
  THEN [isValid |-> FALSE, message |-> fieldName \o " field must be a string"]
  ELSE IF NameLength(TrimName(value.s)) = 0
  THEN [isValid |-> FALSE, message |-> fieldName \o " field cannot be empty"]
  ELSE [isValid |-> TRUE, message |-> ""]

\* validateTechnologyFormat(value, fieldName): the length and character
\* checks; a name of the model that passes them starts with a letter, has no
\* suspicious pattern and no placeholder word, and is in knownTechnologies
validateTechnologyFormat(value, fieldName) ==
  IF NameLength(value) < 2 /\ Lower(value) # "c"
  THEN [isValid |-> FALSE, message |-> fieldName \o " must be at least 2 characters long"]
  ELSE IF NameLength(value) > 100
  THEN [isValid |-> FALSE, message |-> fieldName \o " must be less than 100 characters"]
  ELSE IF value = "<b>"
  THEN [isValid |-> FALSE, message |-> fieldName \o " contains invalid characters"]
  ELSE [isValid |-> TRUE, message |-> ""]

\* a failure of parseRequestBody, before its timestamp is taken
RequestError(code, message) ==
  [success |-> FALSE, error |-> [code |-> code, message |-> message]]

\* body of a request: what request.json() gives, or the SyntaxError it throws
JsonBody(t, v1, v2) == [t |-> t, tech1 |-> v1, tech2 |-> v2]

\* the two format checks of parseRequestBody and its success
FormatChecked(t1, t2) ==
  IF ~validateTechnologyFormat(t1, "tech1").isValid
  THEN RequestError("INVALID_TECH1_FORMAT", validateTechnologyFormat(t1, "tech1").message)
  ELSE IF ~validateTechnologyFormat(t2, "tech2").isValid
  THEN RequestError("INVALID_TECH2_FORMAT", validateTechnologyFormat(t2, "tech2").message)
  ELSE Ok([tech1 |-> t1, tech2 |-> t2])

\* the checks of parseRequestBody in their order
BodyChecked(body) ==
  IF body.t = "syntax error"
  THEN RequestError("INVALID_JSON", "Request body contains invalid JSON syntax")
  ELSE IF body.t # "object"
  THEN RequestError("INVALID_REQUEST_BODY",
                    "Request body must be a valid JSON object with tech1 and tech2 fields")
  ELSE IF ~validateTechnologyField(body.tech1, "tech1").isValid
  THEN RequestError("MISSING_TECH1", validateTechnologyField(body.tech1, "tech1").message)
  ELSE IF ~validateTechnologyField(body.tech2, "tech2").isValid
  THEN RequestError("MISSING_TECH2", validateTechnologyField(body.tech2, "tech2").message)
  ELSE IF Lower(TrimName(body.tech1.s)) = Lower(TrimName(body.tech2.s))
  THEN RequestError("DUPLICATE_TECHNOLOGIES",
                    "Please provide two different technologies for comparison")
  ELSE FormatChecked(TrimName(body.tech1.s), TrimName(body.tech2.s))

\* parseRequestBody(request): a failure carries timestamp: new Date().toISOString()
parseRequestBody(body) ==
  IF BodyChecked(body).success THEN BodyChecked(body)
  ELSE [success |-> FALSE,
        error |-> [code |-> BodyChecked(body).error.code,
                   message |-> BodyChecked(body).error.message,
                   timestamp |-> now]]

\* normalizeTechnologyNames: the aliases of the names of the model
normalize(tech) ==
  CASE Lower(TrimName(tech)) \in {"react", "reactjs"} -> "React"
    [] Lower(TrimName(tech)) = "vue" -> "Vue"
    [] OTHER -> TrimName(tech)

\* createPromptPackage(tech1, tech2).isValid, for two names that passed
\* parseRequestBody: neither is blank, a generic term or longer than 50
createPromptPackage(t1, t2) ==
  [isValid |-> Lower(normalize(t1)) # Lower(normalize(t2))]

\* what the call of the model settles with
Replied(text) ==
  [kind |-> "reply", text |-> text, name |-> "", code |-> "", message |-> ""]
Rejected(name, code, message) ==
  [kind |-> "error", text |-> <<>>, name |-> name, code |-> code, message |-> message]
Pending == [kind |-> "pending", text |-> <<>>, name |-> "", code |-> "", message |-> ""]
NotCalled == [kind |-> "not called", text |-> <<>>, name |-> "", code |-> "", message |-> ""]

\* Promise.race of the call and the timer of 30000 ms
Race(outcome) ==
  IF outcome.kind = "pending" THEN Rejected("Error", "", "Request timeout") ELSE outcome

\* the words of the catch block that a message of the model includes
Keywords(message) ==
  CASE message = "connect ECONNREFUSED 127.0.0.1:443" -> {"ECONNREFUSED"}
    [] message = "getaddrinfo ENOTFOUND api.openai.com" -> {"ENOTFOUND"}
    [] message = "read ETIMEDOUT" -> {"ETIMEDOUT"}
    [] message = "JavaScript heap out of memory" -> {"out of memory"}
    [] message = "Maximum call stack size exceeded" -> {"Maximum call stack"}
    [] message = "Unexpected token < in JSON at position 0" -> {"JSON"}
    [] OTHER -> {}

\* the branch `error instanceof OpenAIError` that passes code and message on
OpenAIErrorPassed(error) == createErrorResponse(error.code, error.message, 500)

\* the branch `error instanceof OpenAIError`
OpenAIErrorResponse(error) ==
  IF error.code \in {"insufficient_quota", "rate_limit_exceeded"}
  THEN createErrorResponse(error.code,
         "Our AI service is currently experiencing high demand. Please try again in a few moments.",
         429)
  ELSE IF error.code = "invalid_api_key"
  THEN createErrorResponse("SERVICE_ERROR",
         "Service configuration error. Our team has been notified.", 500)
  ELSE IF error.code = "model_not_found"
  THEN createErrorResponse("SERVICE_ERROR",
         "Analysis service temporarily unavailable. Please try again later.", 500)
  ELSE IF error.code = "context_length_exceeded"
  THEN createErrorResponse(error.code,
         "Technology comparison request is too complex to process.", 400)
  ELSE createErrorResponse(error.code, error.message, 500)

\* the last return of the catch block
InternalError ==
  createErrorResponse("INTERNAL_ERROR",
    "An unexpected error occurred while processing your request.", 500)

\* the catch block without its branches for the messages of an Error
ErrorUnread(error) ==
  IF error.name = "OpenAIError" THEN OpenAIErrorResponse(error) ELSE InternalError

\* the catch block of POST
ErrorResponse(error) ==
  IF error.name = "OpenAIError" THEN OpenAIErrorResponse(error)
  ELSE IF error.message = "Request timeout"
  THEN createErrorResponse("TIMEOUT_ERROR",
         "The analysis request took too long to complete.", 408)
  ELSE IF error.name = "SyntaxError" /\ "JSON" \in Keywords(error.message)
  THEN createErrorResponse("INVALID_REQUEST",
         "Request body contains invalid JSON format.", 400)
  ELSE IF Keywords(error.message) \cap {"ECONNREFUSED", "ENOTFOUND", "ETIMEDOUT"} # {}
  THEN createErrorResponse("NETWORK_ERROR", "Unable to connect to analysis service.", 503)
  ELSE IF Keywords(error.message) \cap {"out of memory", "Maximum call stack"} # {}
  THEN createErrorResponse("RESOURCE_ERROR",
         "Request requires too many resources to process.", 413)
  ELSE InternalError

\* parseLLMResponse as a function of its arguments: a stage that failed
\* ends the call, a stage that succeeded hands over to the rest
Staged(r, message, rest) ==
  IF IsThrown(r) THEN Failure("Unexpected error parsing LLM response", r.thrown)
  ELSE IF ~r.success THEN Failure(message, r.error)
  ELSE rest

Parsed(s, t1, t2, tape, verdicts, tax) ==
  Staged(tape, "Failed to parse Tale of the Tape section",
    Staged(verdicts, "Failed to parse Verdicts section",
      Staged(tax, "Failed to parse Hidden Tax section",
        IF Trim(s.data.tieBreaker) = <<>>
        THEN Failure("Tie-breaker question is missing or empty", "")
        ELSE Ok(Analysis(t1, t2, tape.data, verdicts.data, tax.data,
                         Trim(s.data.tieBreaker))))))

Sectioned(s, t1, t2) ==
  Staged(s, "Failed to parse LLM response structure",
    Parsed(s, t1, t2,
           parseTaleOfTheTape(s.data.taleOfTheTape, t1, t2),
           parseScenarios(s.data.verdicts, t1, t2),
           parseHiddenTax(s.data.hiddenTax)))

parseLLMResponse(text, t1, t2) ==
  IF text = <<>> \/ Trim(text) = <<>>
  THEN Failure("LLM response is empty or invalid", "Response must be a non-empty string")
  ELSE IF t1 = "" \/ t2 = ""
  THEN Failure("Technology names are invalid",
               "Both tech1 and tech2 must be non-empty strings")
  ELSE Sectioned(extractSections(text), t1, t2)

\* the response to a reply of the model
AnalysisResponse(analysis) ==
  IF ~analysis.success
  THEN createErrorResponse(analysis.error.code, analysis.error.message, 500)
  ELSE [status |-> 200, body |-> [success |-> TRUE, data |-> analysis.data]]

\* the try block from the call of the model on
Called(settled, t1, t2) ==
  IF settled.kind = "error" THEN ErrorResponse(settled)
  ELSE AnalysisResponse(parseLLMResponse(settled.text, t1, t2))

\* the try block from parseRequestBody on
Validated(body, outcome) ==
  IF ~body.success
  THEN createErrorResponse(body.error.code, body.error.message, 400)
  ELSE IF ~createPromptPackage(body.data.tech1, body.data.tech2).isValid
  THEN createErrorResponse("VALIDATION_ERROR",
         "Technology inputs failed additional validation checks", 400)
  ELSE Called(Race(outcome), body.data.tech1, body.data.tech2)

\* headers of a request; "" is a header that is not sent
Headers ==
  [contentType : {"", "application/json"},
   forwardedFor : {"", "10.0.0.1"},
   realIp : {"", "10.0.0.1"}]

\* request.headers.get('x-forwarded-for') || request.headers.get('x-real-ip') || 'unknown'
ClientId(headers) ==
  IF headers.forwardedFor # "" THEN headers.forwardedFor
  ELSE IF headers.realIp # "" THEN headers.realIp
  ELSE "unknown"

\* the request reaches the call of the model
Reaches(body) ==
  /\ BodyChecked(body).success
  /\ createPromptPackage(BodyChecked(body).data.tech1,
                         BodyChecked(body).data.tech2).isValid

\* the response of POST; `limit` is what checkRateLimit gave
Response(headers, limit, body, outcome) ==
  IF headers.contentType # "application/json"
  THEN createErrorResponse("INVALID_CONTENT_TYPE",
         "Request must have Content-Type: application/json", 400)
  ELSE IF ~limit.allowed
  THEN createErrorResponse("RATE_LIMIT_EXCEEDED",
         "Too many requests. Please wait before trying again.", 429)
  ELSE Validated(parseRequestBody(body), outcome)

\* the requests of the client's window that the limiter counted so far
Counted(clientId) ==
  IF clientId \in DOMAIN rateLimitMap /\ now <= rateLimitMap[clientId].resetTime
  THEN rateLimitMap[clientId].count ELSE 0

\* the times of a log that lie no more than a window before now
Recent(log) == SelectSeq(log, LAMBDA t : t >= now - RATE_LIMIT_WINDOW)

\* the length of the logs
Logged == Len(admitted["10.0.0.1"]) + Len(admitted["unknown"])

\* a request: its headers, its body, and what the model would answer
Request(headers, body, outcome) ==
  [headers |-> headers, body |-> body, outcome |-> outcome]

\* checkRateLimit is called for the request
Limited(headers) == headers.contentType = "application/json"

\* POST(request), for a request of the given set
PostWith(requests) ==
  \E r \in requests :
    /\ Logged < MaxAdmitted
    /\ request' = [headers |-> r.headers, clientId |-> ClientId(r.headers),
                   body |-> r.body, outcome |-> r.outcome,
                   counted |-> Counted(ClientId(r.headers))]
    /\ httpResponse' =
         Response(r.headers, checkRateLimit(ClientId(r.headers)), r.body, r.outcome)
    /\ rateLimitMap' = IF Limited(r.headers)
                       THEN checkRateLimit(ClientId(r.headers)).map ELSE rateLimitMap
    /\ admitted' =
         IF Limited(r.headers) /\ checkRateLimit(ClientId(r.headers)).allowed
         THEN [admitted EXCEPT ![ClientId(r.headers)] = Append(Recent(@), now)]
         ELSE admitted
    /\ UNCHANGED <<response, tech1, tech2, pc, sections, taleOfTheTape, scenarios,
                   hiddenTax, result, calls, now, earlier, nodeEnv, retry, flight, page>>

\* names a body is written with
Names == {"", " ", "React", " React ", "react", "reactjs", "Vue", "V", "<b>"}

FieldValues == {Undefined, Null, Number} \cup {String(s) : s \in Names}

\* bodies: not JSON, JSON that is not an object, objects with one field
\* varied, an object with unrelated fields only
Bodies ==
  {JsonBody(t, Undefined, Undefined) : t \in {"syntax error", "null", "array", "string"}}
  \cup {JsonBody("object", v, String("Vue")) : v \in FieldValues \ {String("reactjs"), String(" React ")}}
  \cup {JsonBody("object", String("React"), v) : v \in FieldValues}
  \cup {JsonBody("object", Undefined, Undefined)}

OpenAICodes ==
  {"rate_limit_exceeded", "insufficient_quota", "invalid_api_key", "model_not_found",
   "context_length_exceeded", "server_error", "timeout"}

ErrorMessages ==
  {"boom", "Request timeout", "request timed out", "connect ECONNREFUSED 127.0.0.1:443",
   "getaddrinfo ENOTFOUND api.openai.com", "read ETIMEDOUT",
   "JavaScript heap out of memory", "Maximum call stack size exceeded",
   "Unexpected token < in JSON at position 0"}

\* replies of the model: the reply the prompt asks for, an empty reply
ModelReplies ==
  {Reply("plain", AllOk, StandardTape, StandardVerdicts("React", "Vue"), StandardTax("React")),
   <<>>}

Outcomes ==
  {Replied(text) : text \in ModelReplies}
  \cup {Rejected("OpenAIError", code, "The server had an error") : code \in OpenAICodes}
  \cup {Rejected("Error", "", message) : message \in ErrorMessages}
  \cup {Rejected("SyntaxError", "", message) :
          message \in {"boom", "Unexpected token < in JSON at position 0"}}
  \cup {Pending, NotCalled}

\* instants at which requests arrive
Instants == {0, RATE_LIMIT_WINDOW, RATE_LIMIT_WINDOW + 1}

\* time passes between two requests
Wait ==
  /\ \E t \in Instants : t > now /\ now' = t
  /\ UNCHANGED <<response, tech1, tech2, pc, sections, taleOfTheTape, scenarios,
                 hiddenTax, result, calls, earlier>>
  /\ UNCHANGED server

\* requests without an address header: every body and every outcome of the
\* model under the JSON content type, one body without it
Requests ==
  {Request(h, body, outcome) :
     h \in {h \in Headers : Limited(h) /\ ClientId(h) = "unknown"},
     body \in {b \in Bodies : Reaches(b)}, outcome \in Outcomes \ {NotCalled}}
  \cup {Request(h, body, NotCalled) :
          h \in {h \in Headers : Limited(h) /\ ClientId(h) = "unknown"},
          body \in {b \in Bodies : ~Reaches(b)}}
  \cup {Request(h, JsonBody("object", String("React"), String("Vue")), NotCalled) :
          h \in {h \in Headers : ~Limited(h) /\ ClientId(h) = "unknown"}}

\* well-formed requests of either client, answered with an empty reply
PlainRequests ==
  {Request(h, JsonBody("object", String("React"), String("Vue")), Replied(<<>>)) :
     h \in {h \in Headers : Limited(h)}}

Post == PostWith(Requests)

PostPlain == PostWith(PlainRequests)

\* the route module loaded, parseLLMResponse not running
InitPost ==
  /\ response = <<>>
  /\ tech1 = ""
  /\ tech2 = ""
  /\ pc = "idle"
  /\ sections = None
  /\ taleOfTheTape = None
  /\ scenarios = None
  /\ hiddenTax = None
  /\ result = <<>>
  /\ calls = <<>>
  /\ now = 0
  /\ earlier = None
  /\ nodeEnv \in {"production", "test"}
  /\ Loaded

SpecPost == InitPost /\ [][Post]_vars

NextLimit ==
  \/ PostPlain
  \/ Wait

SpecLimit == InitPost /\ [][NextLimit]_vars

(* ---------------------------------------------------------------------- *)
(* Replies with their sections in another order                            *)
(* ---------------------------------------------------------------------- *)

\* the orders five sections can be written in
Orders ==
  {order \in [1..Len(SectionKeys) -> 1..Len(SectionKeys)] :
     \A i, j \in 1..Len(SectionKeys) : order[i] = order[j] => i = j}

\* what the prompt asks a section to hold
Content(i, t1, t2) ==
  CASE i = 1 -> <<Prose>>
    [] i = 2 -> StandardTape
    [] i = 3 -> StandardVerdicts(t1, t2)
    [] i = 4 -> StandardTax(t1)
    [] i = 5 -> <<Question>>

RECURSIVE Ordered(_, _, _, _, _)
\* the sections order[i], order[i + 1], ... under their headings
Ordered(style, order, i, t1, t2) ==
  IF i > Len(SectionKeys) THEN <<>>
  ELSE Section(style, "ok", SectionKeys[order[i]], Content(order[i], t1, t2))
       \o Ordered(style, order, i + 1, t1, t2)

\* parseLLMResponse called on a reply that holds the five sections in some order
InitOrder ==
  /\ \E names \in ValidNames, style \in Styles, order \in Orders :
       /\ tech1 = names[1]
       /\ tech2 = names[2]
       /\ response = Ordered(style, order, 1, names[1], names[2])
  /\ pc = "validate"
  /\ sections = None
  /\ taleOfTheTape = None
  /\ scenarios = None
  /\ hiddenTax = None
  /\ result = <<>>
  /\ calls = <<>>
  /\ AtStart

SpecOrder == InitOrder /\ [][Next]_vars

(* ---------------------------------------------------------------------- *)
(* withRetry                                                               *)
(* ---------------------------------------------------------------------- *)

\* the largest maxAttempts a caller passes
MaxAttempts == 3

DEFAULT_RETRY_OPTIONS ==
  [maxAttempts |-> 3, baseDelay |-> 1000, maxDelay |-> 10000, backoffMultiplier |-> 2,
   retryableErrors |-> {"NETWORK_ERROR", "TIMEOUT_ERROR", "RATE_LIMIT_ERROR",
                        "INTERNAL_ERROR", "SERVICE_UNAVAILABLE", "UNKNOWN_ERROR"},
   onRetry |-> FALSE]

\* what an operation rejects with: the class of the value, the words of its
\* message, and the code and the retryable flag that an AppError carries
Thrown(class, message, code, retryable) ==
  [class |-> class, code |-> code, message |-> message, retryable |-> retryable]

\* new Error(message)
Error(message) == Thrown("Error", message, "", FALSE)

\* new TypeError(message)
TypeError(message) == Thrown("TypeError", message, "", FALSE)

\* new AppError(type, message, code, details, timestamp, retryable)
AppError(message, code, retryable) == Thrown("AppError", message, code, retryable)

retryablePatterns ==
  {<<"network">>, <<"timeout">>, <<"connection">>, <<"unavailable">>, <<"rate", "limit">>}

\* pattern.test(message) of a pattern with the flag i
PatternTest(pattern, message) ==
  \E i \in 1..(Len(message) - Len(pattern) + 1) :
    \A j \in 1..Len(pattern) : Includes(Lower(message[i + j - 1]), pattern[j])

isRetryableError(error, retryableErrors) ==
  IF error.class = "AppError"
  THEN error.retryable /\ error.code \in retryableErrors
  ELSE IF error.class = "TypeError"
          /\ \E i \in 1..Len(error.message) : Includes(error.message[i], "fetch")
  THEN TRUE
  ELSE \E pattern \in retryablePatterns : PatternTest(pattern, error.message)

RECURSIVE Pow(_, _)
\* Math.pow on natural numbers
Pow(base, exponent) == IF exponent = 0 THEN 1 ELSE base * Pow(base, exponent - 1)

\* the delays calculateDelay can return: Math.random() is any number of [0, 1),
\* so the jitter is any number from 0 up to, and less than, a tenth of cappedDelay
calculateDelay(attempt, options) ==
  LET exponentialDelay == options.baseDelay * Pow(options.backoffMultiplier, attempt - 1)
      cappedDelay == IF exponentialDelay < options.maxDelay
                     THEN exponentialDelay ELSE options.maxDelay
  IN  {cappedDelay + jitter : jitter \in {j \in 0..(cappedDelay \div 10) :
                                            j = 0 \/ 10 * j < cappedDelay}}

\* what one invocation of the operation does
Resolves == [error |-> Error(<<>>), resolved |-> TRUE]

Rejects(error) == [error |-> error, resolved |-> FALSE]

\* error instanceof Error ? error : new Error(String(error))
AsError(error) == IF error.class = "string" THEN Error(error.message) ELSE error

\* { ...DEFAULT_RETRY_OPTIONS, ...options }
Config(options) ==
  [k \in DOMAIN DEFAULT_RETRY_OPTIONS |->
     IF k \in DOMAIN options THEN options[k] ELSE DEFAULT_RETRY_OPTIONS[k]]

\* the options callers pass
Options ==
  [baseDelay : {10, 25}, maxAttempts : 0..MaxAttempts, maxDelay : {40, 10000},
   onRetry : BOOLEAN]

\* what operations reject with
Rejections ==
  {Error(<<"persistent", "error">>), Error(<<"network", "error">>),
   Error(<<"rate", "limit", "exceeded">>), TypeError(<<"fetch", "failed">>),
   AppError(<<"Invalid", "input">>, "VALIDATION_ERROR", FALSE),
   AppError(<<"Network", "unavailable">>, "NETWORK_ERROR", TRUE),
   Thrown("string", <<"boom">>, "", FALSE)}

\* operations: what each of their invocations does
Operations == [1..MaxAttempts -> {Resolves} \cup {Rejects(e) : e \in Rejections}]

\* withRetry up to the first invocation of the operation, called with
\* options and an operation of the two sets
CallWith(someOptions, someOperations) ==
  /\ retry = None
  /\ \E options \in someOptions, operation \in someOperations :
       retry' = [config |-> Config(options), operation |-> operation, attempt |-> 1,
                 lastError |-> Error(<<"No", "attempts", "made">>), invoked |-> 0,
                 retried |-> <<>>, delay |-> 0,
                 pc |-> IF 1 <= Config(options).maxAttempts THEN "loop" ELSE "thrown"]
  /\ UNCHANGED <<response, tech1, tech2, pc, sections, taleOfTheTape, scenarios,
                 hiddenTax, result, calls, now, earlier, nodeEnv, rateLimitMap,
                 request, httpResponse, admitted, flight, page>>

CallWithRetry == CallWith(Options, Operations)

\* options with a base delay of 10 ms, the default cap and no callback
PlainOptions ==
  {options \in Options :
     options.baseDelay = 10 /\ options.maxDelay = 10000 /\ ~options.onRetry}

\* operations that resolve, reject with an Error that is retried or reject
\* with one that is not
PlainOperations ==
  {operation \in Operations :
     \A i \in 1..MaxAttempts :
       operation[i] \in {Resolves, Rejects(Error(<<"persistent", "error">>)),
                         Rejects(Error(<<"network", "error">>))}}

CallWithDefaults == CallWith(PlainOptions, PlainOperations)

\* a loop without the break at the last attempt
NeverLastAttempt(attempt, config) == FALSE

\* if (attempt === config.maxAttempts) break
LastAttempt(attempt, config) == attempt = config.maxAttempts

\* one turn of the loop: the operation is invoked and settles; withRetry
\* returns, throws lastError after a break, or starts to sleep
Iterate ==
  /\ retry # None
  /\ retry.pc = "loop"
  /\ LET outcome == retry.operation[retry.invoked + 1]
         lastError == AsError(outcome.error)
     IN  IF outcome.resolved
         THEN retry' = [retry EXCEPT !.invoked = @ + 1, !.pc = "returned"]
         ELSE IF LastAttempt(retry.attempt, retry.config)
                 \/ ~isRetryableError(lastError, retry.config.retryableErrors)
         THEN retry' = [retry EXCEPT !.invoked = @ + 1, !.lastError = lastError,
                                     !.pc = "thrown"]
         ELSE \E delay \in calculateDelay(retry.attempt, retry.config) :
                retry' = [retry EXCEPT
                            !.invoked = @ + 1, !.lastError = lastError,
                            !.delay = delay,
                            !.retried = IF retry.config.onRetry
                                        THEN Append(@, <<retry.attempt, lastError>>)
                                        ELSE @,
                            !.pc = "sleep"]
  /\ UNCHANGED <<response, tech1, tech2, pc, sections, taleOfTheTape, scenarios,
                 hiddenTax, result, calls, now, earlier, nodeEnv, rateLimitMap,
                 request, httpResponse, admitted, flight, page>>

\* the sleep is over: attempt++ and the test of the loop
Wake ==
  /\ retry # None
  /\ retry.pc = "sleep"
  /\ now' = now + retry.delay
  /\ retry' = [retry EXCEPT !.attempt = @ + 1,
                            !.pc = IF retry.attempt + 1 <= retry.config.maxAttempts
                                   THEN "loop" ELSE "thrown"]
  /\ UNCHANGED <<response, tech1, tech2, pc, sections, taleOfTheTape, scenarios,
                 hiddenTax, result, calls, earlier, nodeEnv, rateLimitMap,
                 request, httpResponse, admitted, flight, page>>

NextRetry ==
  \/ CallWithRetry
  \/ Iterate
  \/ Wake

SpecRetry == InitPost /\ [][NextRetry]_vars

NextSettle ==
  \/ CallWithDefaults
  \/ Iterate
  \/ Wake

\* the operation settles each time it is invoked and the timer of every
\* sleep fires: no step of withRetry that can be taken is put off for ever
SpecRetryFair == InitPost /\ [][NextSettle]_vars /\ WF_vars(NextSettle)

(* ---------------------------------------------------------------------- *)
(* retryFetch                                                              *)
(* ---------------------------------------------------------------------- *)

\* the options retryApiCall puts under those of its caller
apiRetryOptions ==
  [DEFAULT_RETRY_OPTIONS EXCEPT
     !.maxAttempts = 3, !.baseDelay = 1000, !.maxDelay = 5000,
     !.retryableErrors = {"NETWORK_ERROR", "TIMEOUT_ERROR", "RATE_LIMIT_ERROR",
                          "INTERNAL_ERROR", "SERVICE_UNAVAILABLE", "UNKNOWN_ERROR",
                          "API_ERROR"}]

\* { ...DEFAULT_RETRY_OPTIONS, maxAttempts: 3, ..., ...options }
ApiConfig(options) ==
  [k \in DOMAIN apiRetryOptions |->
     IF k \in DOMAIN options THEN options[k] ELSE apiRetryOptions[k]]

\* what fetch does: a response with a status, or a rejection
Statuses == {200, 404, 429, 500, 503}

Answered(status) == [kind |-> "response", status |-> status]

Failed(kind) == [kind |-> kind, status |-> 0]

\* `HTTP ${response.status}: ${response.statusText}`
StatusMessage(status) ==
  CASE status = 404 -> <<"HTTP", "404:", "Not", "Found">>
    [] status = 429 -> <<"HTTP", "429:", "Too", "Many", "Requests">>
    [] status = 500 -> <<"HTTP", "500:", "Internal", "Server", "Error">>
    [] status = 503 -> <<"HTTP", "503:", "Service", "Unavailable">>
    [] OTHER -> <<"HTTP">>

\* the operation retryFetch hands to retryApiCall, for one answer of fetch
FetchOperation(answer) ==
  IF answer.kind = "response"
  THEN IF answer.status >= 200 /\ answer.status <= 299
       THEN Resolves
       ELSE Rejects(AppError(StatusMessage(answer.status),
                             IF answer.status >= 500 THEN "SERVER_ERROR" ELSE "CLIENT_ERROR",
                             answer.status >= 500 \/ answer.status = 429))
  ELSE IF answer.kind = "TypeError: fetch failed"
  THEN Rejects(AppError(<<"Network", "connection", "failed">>, "NETWORK_ERROR", TRUE))
  ELSE IF answer.kind = "AbortError"
  THEN Rejects(AppError(<<"Request", "timed", "out">>, "TIMEOUT_ERROR", TRUE))
  ELSE Rejects(AppError(<<"boom">>, "UNKNOWN_ERROR", TRUE))

\* what fetch does at each of its calls
Answers ==
  [1..MaxAttempts -> {Answered(status) : status \in Statuses}
                     \cup {Failed(kind) : kind \in {"TypeError: fetch failed",
                                                     "AbortError", "Error: boom"}}]

\* the options callers of retryFetch pass
FetchOptions == [baseDelay : {10, 25}, maxAttempts : 1..MaxAttempts]

\* retryFetch up to the first call of fetch
CallRetryFetch ==
  /\ retry = None
  /\ \E options \in FetchOptions, answers \in Answers :
       retry' = [config |-> ApiConfig(options), answers |-> answers,
                 operation |-> [i \in 1..MaxAttempts |-> FetchOperation(answers[i])],
                 attempt |-> 1, lastError |-> Error(<<"No", "attempts", "made">>),
                 invoked |-> 0, retried |-> <<>>, delay |-> 0,
                 pc |-> IF 1 <= ApiConfig(options).maxAttempts THEN "loop" ELSE "thrown"]
  /\ UNCHANGED <<response, tech1, tech2, pc, sections, taleOfTheTape, scenarios,
                 hiddenTax, result, calls, now, earlier, nodeEnv, rateLimitMap,
                 request, httpResponse, admitted, flight, page>>

NextFetch ==
  \/ CallRetryFetch
  \/ Iterate
  \/ Wake

SpecFetch == InitPost /\ [][NextFetch]_vars

(* ---------------------------------------------------------------------- *)
(* POST: the call of the model and the timer of 30000 ms                   *)
(* ---------------------------------------------------------------------- *)

\* setTimeout(() => reject(new Error('Request timeout')), 30000)
Timeout == 30000

\* the time that passes in one step, and the number of steps
Lapse == Timeout \div 2
MaxLapses == 3

\* a promise that stays settled at whatever settles it, early or late
SettleAgain(promise, outcome) == outcome

\* a promise settles once: what comes later is ignored
Settle(promise, outcome) == IF promise = Pending THEN outcome ELSE promise

\* what callOpenAI settles with
Settlements == Outcomes \ {Pending, NotCalled}

\* POST reaches `await Promise.race([callOpenAI(...), new Promise(... setTimeout ...)])`
CallModel ==
  /\ flight = None
  /\ \E t1 \in {"React"}, t2 \in {"Vue", "Svelte"} :
       flight' = [tech1 |-> t1, tech2 |-> t2, started |-> now, call |-> Pending,
                  settledAt |-> 0, timer |-> "armed", race |-> Pending,
                  parsed |-> 0, responses |-> <<>>]
  /\ UNCHANGED <<response, tech1, tech2, pc, sections, taleOfTheTape, scenarios,
                 hiddenTax, result, calls, now, earlier, nodeEnv, rateLimitMap,
                 request, httpResponse, admitted, retry, page>>

\* the race settles with `outcome`: when that changes the race, POST goes on
\* after the await, to parseLLMResponse and the response or to the catch block
Resume(f, outcome) ==
  LET race == Settle(f.race, outcome)
  IN  IF race = f.race THEN f
      ELSE [f EXCEPT !.race = race,
                     !.parsed = IF race.kind = "reply" THEN @ + 1 ELSE @,
                     !.responses = Append(@, Called(race, f.tech1, f.tech2))]

\* callOpenAI resolves or rejects
CallSettles ==
  /\ flight # None
  /\ flight.call = Pending
  /\ \E outcome \in Settlements :
       flight' = Resume([flight EXCEPT !.call = outcome, !.settledAt = now], outcome)
  /\ UNCHANGED <<response, tech1, tech2, pc, sections, taleOfTheTape, scenarios,
                 hiddenTax, result, calls, now, earlier, nodeEnv, rateLimitMap,
                 request, httpResponse, admitted, retry, page>>

\* the callback of setTimeout rejects the second promise of the race
TimerFires ==
  /\ flight # None
  /\ flight.timer = "armed"
  /\ now >= flight.started + Timeout
  /\ flight' = Resume([flight EXCEPT !.timer = "fired"],
                      Rejected("Error", "", "Request timeout"))
  /\ UNCHANGED <<response, tech1, tech2, pc, sections, taleOfTheTape, scenarios,
                 hiddenTax, result, calls, now, earlier, nodeEnv, rateLimitMap,
                 request, httpResponse, admitted, retry, page>>

\* time passes; a timer that is due fires before more time passes
Elapse ==
  /\ flight # None
  /\ now < flight.started + MaxLapses * Lapse
  /\ ~(flight.timer = "armed" /\ now >= flight.started + Timeout)
  /\ now' = now + Lapse
  /\ UNCHANGED <<response, tech1, tech2, pc, sections, taleOfTheTape, scenarios,
                 hiddenTax, result, calls, earlier>>
  /\ UNCHANGED server

NextTimeout ==
  \/ CallModel
  \/ CallSettles
  \/ TimerFires
  \/ Elapse

SpecTimeout == InitPost /\ [][NextTimeout]_vars

(* ---------------------------------------------------------------------- *)
(* The page: Home, MatchupInput and ErrorNotification                      *)
(* ---------------------------------------------------------------------- *)

\* setTimeout(() => { setIsVisible(false); onDismiss?.() }, 200)
DismissDelay == 200

\* the time that passes in one step, the number of steps, and the number of
\* requests the user starts
PageLapse == DismissDelay \div 2
MaxPageLapses == 4
MaxRequests == 3

\* error: null
NoError == [of |-> 0, retryable |-> FALSE]

\* the AppError that handleSubmit sets for request r
ErrorOf(r, retryable) == [of |-> r, retryable |-> retryable]

\* what makeApiCall settles with: the analysis, an AppError with retryable
\* true (HTTP 429 or 5xx, a network failure), one with retryable false (4xx)
Calls == {"analysis", "retryable", "final"}

\* useState of Home and of ErrorNotification before the first event; the
\* requests in flight and the pending callbacks of setTimeout
Mounted ==
  [analysis |-> 0, loading |-> FALSE, error |-> NoError, lastRequest |-> <<>>,
   isVisible |-> FALSE, isAnimating |-> FALSE,
   issued |-> 0, inFlight |-> {}, timers |-> {}]

\* useEffect of ErrorNotification, run when `error` is another value than
\* at the last render
Effect(old, new) ==
  IF new.error = old.error THEN new
  ELSE [new EXCEPT !.isVisible = new.error # NoError,
                   !.isAnimating = new.error # NoError]

\* ErrorNotification renders its buttons
NotificationShown(p) == p.error # NoError /\ p.isVisible

\* the form is on the page although a request is in flight, and submits
AlwaysSubmits(p) == TRUE

\* MatchupInput is rendered ({!analysis && !loading && ...}) and its
\* handleSubmit passes `validation.isValid && !loading && !disabled`
Submits(p) == p.analysis = 0 /\ ~p.loading

\* handleSubmit of Home up to its await: request issued + 1 is in flight
handleSubmit(p, names) ==
  [p EXCEPT !.loading = TRUE, !.error = NoError, !.analysis = 0,
            !.lastRequest = names,
            !.issued = @ + 1, !.inFlight = @ \cup {p.issued + 1}]

\* handleDismiss of ErrorNotification; `started` is the request that the
\* same click starts, 0 when the click starts none
handleDismiss(p, started) ==
  [p EXCEPT !.isAnimating = FALSE,
            !.timers = @ \cup {[due |-> now + DismissDelay, request |-> started]}]

\* the first render of the page
Mount ==
  /\ page = None
  /\ page' = Mounted
  /\ UNCHANGED <<response, tech1, tech2, pc, sections, taleOfTheTape, scenarios,
                 hiddenTax, result, calls, now, earlier, nodeEnv, rateLimitMap,
                 request, httpResponse, admitted, retry, flight>>

\* the user submits the form with two valid names
SubmitForm ==
  /\ page # None
  /\ page.issued < MaxRequests
  /\ Submits(page)
  /\ \E names \in {<<"React", "Vue">>, <<"React", "Svelte">>} :
       page' = Effect(page, handleSubmit(page, names))
  /\ UNCHANGED <<response, tech1, tech2, pc, sections, taleOfTheTape, scenarios,
                 hiddenTax, result, calls, now, earlier, nodeEnv, rateLimitMap,
                 request, httpResponse, admitted, retry, flight>>

\* the user clicks Retry: handleRetry of ErrorNotification calls
\* handleDismiss and onRetry, which is handleRetry of Home
ClickRetry ==
  /\ page # None
  /\ page.issued < MaxRequests
  /\ NotificationShown(page)
  /\ page.error.retryable
  /\ page' = Effect(page,
               IF page.lastRequest = <<>> THEN handleDismiss(page, 0)
               ELSE handleSubmit(handleDismiss(page, page.issued + 1),
                                 page.lastRequest))
  /\ UNCHANGED <<response, tech1, tech2, pc, sections, taleOfTheTape, scenarios,
                 hiddenTax, result, calls, now, earlier, nodeEnv, rateLimitMap,
                 request, httpResponse, admitted, retry, flight>>

\* the user clicks the dismiss button of the notification
ClickDismiss ==
  /\ page # None
  /\ NotificationShown(page)
  /\ page' = handleDismiss(page, 0)
  /\ UNCHANGED <<response, tech1, tech2, pc, sections, taleOfTheTape, scenarios,
                 hiddenTax, result, calls, now, earlier, nodeEnv, rateLimitMap,
                 request, httpResponse, admitted, retry, flight>>

\* a callback of handleDismiss runs: setIsVisible(false), and onDismiss,
\* which is handleErrorDismiss of Home: setError(null)
DismissTimerFires ==
  /\ page # None
  /\ \E timer \in page.timers :
       /\ timer.due <= now
       /\ page' = Effect(page, [page EXCEPT !.isVisible = FALSE, !.error = NoError,
                                            !.timers = @ \ {timer}])
  /\ UNCHANGED <<response, tech1, tech2, pc, sections, taleOfTheTape, scenarios,
                 hiddenTax, result, calls, now, earlier, nodeEnv, rateLimitMap,
                 request, httpResponse, admitted, retry, flight>>

\* makeApiCall of request r settles: the rest of handleSubmit
RequestSettles ==
  /\ page # None
  /\ \E r \in page.inFlight, call \in Calls :
       page' = Effect(page,
                 [page EXCEPT
                    !.analysis = IF call = "analysis" THEN r ELSE @,
                    !.error = IF call = "analysis" THEN NoError
                              ELSE ErrorOf(r, call = "retryable"),
                    !.loading = FALSE,
                    !.inFlight = @ \ {r}])
  /\ UNCHANGED <<response, tech1, tech2, pc, sections, taleOfTheTape, scenarios,
                 hiddenTax, result, calls, now, earlier, nodeEnv, rateLimitMap,
                 request, httpResponse, admitted, retry, flight>>

\* the user clicks the button under the analysis: handleReset
ClickReset ==
  /\ page # None
  /\ page.analysis # 0 /\ ~page.loading
  /\ page' = Effect(page, [page EXCEPT !.analysis = 0, !.error = NoError,
                                       !.loading = FALSE, !.lastRequest = <<>>])
  /\ UNCHANGED <<response, tech1, tech2, pc, sections, taleOfTheTape, scenarios,
                 hiddenTax, result, calls, now, earlier, nodeEnv, rateLimitMap,
                 request, httpResponse, admitted, retry, flight>>

\* time passes; a callback that is due runs before more time passes
PageElapse ==
  /\ page # None
  /\ now < MaxPageLapses * PageLapse
  /\ \A timer \in page.timers : timer.due > now
  /\ now' = now + PageLapse
  /\ UNCHANGED <<response, tech1, tech2, pc, sections, taleOfTheTape, scenarios,
                 hiddenTax, result, calls, earlier>>
  /\ UNCHANGED server

NextPage ==
  \/ Mount
  \/ SubmitForm
  \/ ClickRetry
  \/ ClickDismiss
  \/ DismissTimerFires
  \/ RequestSettles
  \/ ClickReset
  \/ PageElapse

SpecPage == InitPost /\ [][NextPage]_vars

(* ---------------------------------------------------------------------- *)
(* What a reply holds, read off its lines                                  *)
(* ---------------------------------------------------------------------- *)

\* index of the heading line of section i, or 0 when the reply has none
HeadingLine(text, i) ==
  FirstOf({j \in 1..Len(text) : text[j].k = "head" /\ text[j].d = SectionKeys[i]})

\* the lines under the heading of section i, up to the next section heading
ContentOf(text, i) ==
  LET h == HeadingLine(text, i)
      next == FirstOf({j \in (h + 1)..Len(text) : text[j].k = "head"})
  IN SubSeq(text, h + 1, IF next = 0 THEN Len(text) ELSE next - 1)

\* section i is absent from the reply, or its heading has blank content
Defective(text, i) == HeadingLine(text, i) = 0 \/ Trim(ContentOf(text, i)) = <<>>

\* the tie-breaker heading is written in the style and its content is blank
BlankTieBreaker(text, style) ==
  /\ HeadingLine(text, 5) # 0
  /\ text[HeadingLine(text, 5)].f = style
  /\ Trim(ContentOf(text, 5)) = <<>>

\* the dimensions that have no row in the tape section of the reply
DeletedRows(text) ==
  SelectSeq(dimensions,
            LAMBDA dim : \A j \in 1..Len(ContentOf(text, 2)) :
                           ~(ContentOf(text, 2)[j].k = "row" /\ ContentOf(text, 2)[j].d = dim))

\* the scenario names that have no heading in the verdicts section
UnlocatedScenarios(text) ==
  SelectSeq(scenarioNames,
            LAMBDA name : \A j \in 1..Len(ContentOf(text, 3)) :
                            ~(ContentOf(text, 3)[j].k = "scen"
                              /\ ContentOf(text, 3)[j].d = TeamType(name)))

(* ---------------------------------------------------------------------- *)
(* Properties of parseLLMResponse                                          *)
(* ---------------------------------------------------------------------- *)

\* C1: parseLLMResponse returns exactly one outcome for every reply and
\* every pair of names: nothing is returned before it ends, and until it
\* ends the stage it is at has the results it reads; when it ends one
\* outcome was returned, which is either a success with a complete analysis
\* or a failure with one error.
ExactlyOneOutcome ==
  /\ pc \in {"validate", "extract", "tape", "scenarios", "hiddenTax", "tieBreaker", "done"}
  /\ pc # "done" => result = <<>>
  /\ pc \in {"tape", "scenarios", "hiddenTax", "tieBreaker"} =>
       sections # None /\ sections.success
  /\ pc = "tieBreaker" =>
       /\ taleOfTheTape # None /\ taleOfTheTape.success
       /\ scenarios # None /\ scenarios.success
       /\ hiddenTax # None /\ hiddenTax.success
  /\ pc = "done" =>
       /\ Len(result) = 1
       /\ \/ /\ DOMAIN result[1] = {"success", "data"}
             /\ result[1].success
             /\ DOMAIN result[1].data =
                  {"matchup", "taleOfTheTape", "scenarios", "hiddenTax", "tieBreaker"}
             /\ result[1].data.matchup = [technology1 |-> tech1, technology2 |-> tech2]
             /\ DOMAIN result[1].data.taleOfTheTape =
                  {DimensionKey(dimensions[i]) : i \in 1..Len(dimensions)}
             /\ Len(result[1].data.scenarios) = Len(scenarioNames)
             /\ DOMAIN result[1].data.hiddenTax =
                  {"technology", "warning", "timeframe", "impact"}
             /\ result[1].data.tieBreaker # <<>>
          \/ /\ DOMAIN result[1] = {"success", "error"}
             /\ ~result[1].success
             /\ DOMAIN result[1].error = {"code", "message", "details", "timestamp"}
             /\ result[1].error.code = "PARSING_ERROR"

\* a reply went through the five stages and its analysis was returned
ParsedReply ==
  /\ pc = "done"
  /\ Len(calls) = 4
  /\ Len(result) = 1
  /\ result[1].success

\* C2: when a parsing stage fails no later stage is invoked: no parser is
\* called after a failure of section extraction, neither parseScenarios nor
\* parseHiddenTax after a failure of the matrix, and parseHiddenTax is not
\* called after a failure of the scenarios.
NoStageAfterFailure ==
  LET called(parser) == \E i \in 1..Len(calls) : calls[i] = parser
  IN /\ (sections # None /\ ~sections.success) =>
          /\ ~called("parseTaleOfTheTape")
          /\ ~called("parseScenarios")
          /\ ~called("parseHiddenTax")
     /\ (taleOfTheTape # None /\ ~taleOfTheTape.success) =>
          /\ ~called("parseScenarios")
          /\ ~called("parseHiddenTax")
     /\ (scenarios # None /\ ~scenarios.success) => ~called("parseHiddenTax")

\* the matrix failed and the function ended with two parsers called
StoppedAfterTape ==
  /\ pc = "done"
  /\ taleOfTheTape # None
  /\ ~taleOfTheTape.success
  /\ calls = <<"extractSections", "parseTaleOfTheTape">>
  /\ result[1].error.message = "Failed to parse Tale of the Tape section"

\* C3: the failure returned is the one of the earliest failing check in
\* the order section extraction, matrix, scenarios, hidden tax, tie-breaker,
\* each check made on its own on the sections of the reply; a reply that
\* fails no check is a success.
EarliestFailureReturned ==
  (pc = "done" /\ sections # None) =>
    LET s == extractSections(response)
        messages == <<"Failed to parse LLM response structure",
                      "Failed to parse Tale of the Tape section",
                      "Failed to parse Verdicts section",
                      "Failed to parse Hidden Tax section",
                      "Tie-breaker question is missing or empty">>
        fails(i) ==
          CASE i = 1 -> ~s.success
            [] i = 2 -> ~parseTaleOfTheTape(s.data.taleOfTheTape, tech1, tech2).success
            [] i = 3 -> ~parseScenarios(s.data.verdicts, tech1, tech2).success
            [] i = 4 -> ~parseHiddenTax(s.data.hiddenTax).success
            [] i = 5 -> Trim(s.data.tieBreaker) = <<>>
        failing == {i \in 1..Len(messages) : IF i = 1 THEN fails(1) ELSE s.success /\ fails(i)}
    IN IF failing = {} THEN result[1].success
       ELSE ~result[1].success /\ result[1].error.message = messages[FirstOf(failing)]

\* a reply whose tape section and hidden tax section are both unparseable
\* ended with the failure of the matrix
TapeBeforeHiddenTax ==
  /\ pc = "done"
  /\ sections # None
  /\ sections.success
  /\ ~parseTaleOfTheTape(sections.data.taleOfTheTape, tech1, tech2).success
  /\ ~parseHiddenTax(sections.data.hiddenTax).success
  /\ result[1].error.message = "Failed to parse Tale of the Tape section"

\* C4: when sections of the reply are absent or empty, section extraction
\* fails and names the first of them in the order matchup, taleOfTheTape,
\* verdicts, hiddenTax, tieBreaker; a single absent heading is the one named.
FirstDefectNamed ==
  sections # None =>
    LET defects == {i \in 1..Len(SectionKeys) : Defective(response, i)}
    IN defects # {} =>
         /\ ~sections.success
         /\ sections.error.name = SectionKeys[FirstOf(defects)]

\* C5: a parser is called only when the five sections were located and are
\* not empty: every section of the reply has its heading and content that is
\* not blank, and the section set handed on has the five keys filled.
OnlyCompleteSectionSets ==
  (\E i \in 1..Len(calls) :
     calls[i] \in {"parseTaleOfTheTape", "parseScenarios", "parseHiddenTax"}) =>
    /\ sections.success
    /\ DOMAIN sections.data = {SectionKeys[i] : i \in 1..Len(SectionKeys)}
    /\ \A i \in 1..Len(SectionKeys) :
         /\ Trim(sections.data[SectionKeys[i]]) # <<>>
         /\ ~Defective(response, i)

\* C6: a blank tie-breaker is never reported by the check made after the
\* hidden tax stage, which cannot fail.  Under the heading "### 5.
\* Tie-Breaker", with the four sections before it written, the reply fails in
\* section extraction, which names tieBreaker, and no parser is called;
\* under the heading with the emoji the words of the heading are taken for
\* the content and extraction succeeds.
BlankTieBreakerStopsExtraction ==
  (pc = "done" /\ sections # None) =>
    /\ ~result[1].success =>
         result[1].error.message # "Tie-breaker question is missing or empty"
    /\ (BlankTieBreaker(response, "plain") /\ \A i \in 1..4 : ~Defective(response, i)) =>
         /\ ~result[1].success
         /\ result[1].error.message = "Failed to parse LLM response structure"
         /\ result[1].error.details =
              [kind |-> "Missing or empty section", name |-> "tieBreaker"]
         /\ calls = <<"extractSections">>
    /\ (BlankTieBreaker(response, "emoji") /\ \A i \in 1..4 : ~Defective(response, i)) =>
         /\ sections.success
         /\ sections.data.tieBreaker = <<LabelText("tieBreaker")>>

\* a reply with a blank tie-breaker under a plain heading ended in section
\* extraction
BlankTieBreakerStopped ==
  /\ pc = "done"
  /\ BlankTieBreaker(response, "plain")
  /\ \A i \in 1..4 : ~Defective(response, i)
  /\ calls = <<"extractSections">>
  /\ result[1].error.details = [kind |-> "Missing or empty section", name |-> "tieBreaker"]

\* C6 as stated: a blank tie-breaker under its heading, the four other
\* sections parsing, is reported as the tie-breaker-empty failure.
BlankTieBreakerReported ==
  (/\ pc = "done"
   /\ sections # None
   /\ BlankTieBreaker(response, "plain") \/ BlankTieBreaker(response, "emoji")
   /\ \A i \in 1..4 : ~Defective(response, i)
   /\ parseTaleOfTheTape(Trim(ContentOf(response, 2)), tech1, tech2).success
   /\ parseScenarios(Trim(ContentOf(response, 3)), tech1, tech2).success
   /\ parseHiddenTax(Trim(ContentOf(response, 4))).success) =>
    /\ ~result[1].success
    /\ result[1].error.message = "Tie-breaker question is missing or empty"

(* ---------------------------------------------------------------------- *)
(* Properties of parseTaleOfTheTape                                        *)
(* ---------------------------------------------------------------------- *)

\* C7: a matrix is returned only with the five dimensions populated and a
\* descriptor that is not empty for each of the two technologies.
MatrixFullyPopulated ==
  (taleOfTheTape # None /\ taleOfTheTape.success) =>
    \A i \in 1..Len(dimensions) :
      /\ DimensionKey(dimensions[i]) \in DOMAIN taleOfTheTape.data
      /\ taleOfTheTape.data[DimensionKey(dimensions[i])].tech1 # <<>>
      /\ taleOfTheTape.data[DimensionKey(dimensions[i])].tech2 # <<>>

\* C8: a failure for missing dimensions lists the dimensions that were not
\* populated, all of them and no other, by label; a tape section with the
\* row of exactly one dimension deleted, the rows it has being filled in,
\* fails and names that dimension.
MissingDimensionsNamed ==
  taleOfTheTape # None =>
    /\ (~taleOfTheTape.success /\ taleOfTheTape.error.kind = "Missing comparison data for") =>
         taleOfTheTape.error.missing =
           SelectSeq(dimensions,
                     LAMBDA dim : DimensionKey(dim) \notin taleOfTheTape.error.found)
    /\ (/\ Len(DeletedRows(response)) = 1
        /\ \A j \in 1..Len(ContentOf(response, 2)) :
             ContentOf(response, 2)[j].k = "row" =>
               ContentOf(response, 2)[j].a # <<>> /\ ContentOf(response, 2)[j].b # <<>>) =>
         /\ ~taleOfTheTape.success
         /\ taleOfTheTape.error.kind = "Missing comparison data for"
         /\ taleOfTheTape.error.missing = DeletedRows(response)

(* ---------------------------------------------------------------------- *)
(* Properties of parseScenarios                                            *)
(* ---------------------------------------------------------------------- *)

\* C9: the scenario parser returns three verdicts, one for each of Move
\* Fast Team, Scale Team and Budget Team in that order, or a failure that
\* names the first of them whose scenario is not in the text.
ThreeVerdictsOrFirstMissing ==
  scenarios # None =>
    IF scenarios.success
    THEN /\ Len(scenarios.data) = Len(scenarioNames)
         /\ \A i \in 1..Len(scenarioNames) : scenarios.data[i].name = scenarioNames[i]
    ELSE /\ UnlocatedScenarios(response) # <<>>
         /\ scenarios.error =
              [kind |-> "Missing scenario", name |-> UnlocatedScenarios(response)[1]]

\* C10: with names that are not empty the scenario parser does not fail on
\* a team whose scenario is in the text: every failure is about a team whose
\* scenario is not there.
LocatedScenarioNeverFails ==
  (scenarios # None /\ tech1 # "" /\ tech2 # "" /\ ~scenarios.success) =>
    /\ scenarios.error.kind = "Missing scenario"
    /\ \E i \in 1..Len(UnlocatedScenarios(response)) :
         UnlocatedScenarios(response)[i] = scenarios.error.name

(* ---------------------------------------------------------------------- *)
(* Properties of parseHiddenTax                                            *)
(* ---------------------------------------------------------------------- *)

\* the sentence of the hidden tax section, when the section is one sentence
\* without its "in <timeframe>" clause and without the word "in"
OpenSentence ==
  LET content == Trim(ContentOf(response, 4))
  IN IF /\ Len(content) = 1
        /\ content[1].k = "tax"
        /\ content[1].f = "open"
        /\ \A j \in 1..Len(content[1].a) : content[1].a[j] # "in"
     THEN content[1] ELSE None

\* C11: for a hidden tax section "If you choose <tech>, be prepared to pay
\* the tax of <warning>." the parser succeeds with the technology and the
\* warning of the sentence, the timeframe "6 months" and the impact
\* "<warning> expected in 6 months".
OpenSentenceRecovered ==
  (hiddenTax # None /\ OpenSentence # None) =>
    /\ hiddenTax.success
    /\ hiddenTax.data.technology = <<OpenSentence.d>>
    /\ hiddenTax.data.warning = OpenSentence.a
    /\ hiddenTax.data.timeframe = <<"6", "months">>
    /\ hiddenTax.data.impact = OpenSentence.a \o <<"expected", "in", "6", "months">>

(* ---------------------------------------------------------------------- *)
(* Replies written on the template                                         *)
(* ---------------------------------------------------------------------- *)

\* C14: a reply written on the template with non-empty strings in its
\* places is parsed with success, and the values written into it are the
\* fields of the analysis: the descriptors of the rows, the winner sentences
\* and the reasonings of the blocks, the technology, warning and timeframe
\* of the hidden tax sentence, and the tie-breaker.
TemplateRecovered ==
  pc = "done" =>
    /\ result[1].success
    /\ LET tape == Trim(ContentOf(response, 2))
           verdicts == Trim(ContentOf(response, 3))
           tax == Trim(ContentOf(response, 4))[1]
           data == result[1].data
       IN /\ \A i \in 1..Len(dimensions) :
               /\ data.taleOfTheTape[DimensionKey(dimensions[i])].tech1 = tape[i + 2].a
               /\ data.taleOfTheTape[DimensionKey(dimensions[i])].tech2 = tape[i + 2].b
          /\ \A i \in 1..Len(scenarioNames) :
               /\ data.scenarios[i].winner = verdicts[2 * i].a
               /\ data.scenarios[i].reasoning = <<Seg(verdicts[2 * i].b)>>
          /\ data.hiddenTax.technology = <<tax.d>>
          /\ data.hiddenTax.warning = tax.a
          /\ data.hiddenTax.timeframe = tax.b
          /\ data.tieBreaker = Trim(ContentOf(response, 5))

(* ---------------------------------------------------------------------- *)
(* Exceptions                                                              *)
(* ---------------------------------------------------------------------- *)

\* C12: no stage lets an exception go to its caller: what extractSections
\* and the three parsers hand back is a success or a failure value, and so
\* is what parseLLMResponse returns, for every reply and every pair of
\* names, a name that is no valid regular expression included.
NoExceptionEscapes ==
  /\ LET value(r) == r # None => (~IsThrown(r) /\ "success" \in DOMAIN r)
     IN value(sections) /\ value(taleOfTheTape) /\ value(scenarios) /\ value(hiddenTax)
  /\ \A i \in 1..Len(result) :
       /\ ~IsThrown(result[i])
       /\ ~result[i].success =>
            result[i].error.message # "Unexpected error parsing LLM response"

\* the name "C++" was compiled as a regular expression and the exception
\* came back from parseScenarios as a failure
ExceptionReturnedAsFailure ==
  /\ pc = "done"
  /\ InvalidPattern(Lower(tech1))
  /\ scenarios # None
  /\ ~IsThrown(scenarios)
  /\ ~scenarios.success
  /\ scenarios.error.kind = "Scenarios parsing failed"
  /\ result[1].error.message = "Failed to parse Verdicts section"

(* ---------------------------------------------------------------------- *)
(* Two calls with the same reply and names                                 *)
(* ---------------------------------------------------------------------- *)

\* C13: two calls of parseLLMResponse with the same reply and the same
\* names return equal outcomes, failures as well as successes, whatever
\* the time of the calls.
SameOutcomeTwice ==
  (pc = "done" /\ earlier # None) => result[1] = earlier

\* C13, but for the time of a failure: two calls with the same reply and the
\* same names return equal successes, or failures that are equal in code,
\* message and details and differ at most in error.timestamp, which is the
\* time of the call and never earlier in the second call.
SameOutcomeButTimestamp ==
  (pc = "done" /\ earlier # None) =>
    IF earlier.success THEN result[1] = earlier
    ELSE /\ ~result[1].success
         /\ result[1].error.code = earlier.error.code
         /\ result[1].error.message = earlier.error.message
         /\ result[1].error.details = earlier.error.details
         /\ result[1].error.timestamp >= earlier.error.timestamp

\* the same reply failed twice, a millisecond apart
FailedTwiceAtDifferentTimes ==
  /\ pc = "done"
  /\ earlier # None
  /\ ~earlier.success
  /\ ~result[1].success
  /\ result[1].error.message = earlier.error.message
  /\ result[1].error.timestamp # earlier.error.timestamp

(* ---------------------------------------------------------------------- *)
(* Properties of POST                                                      *)
(* ---------------------------------------------------------------------- *)

\* the body is JSON without two non-empty strings tech1 and tech2
LacksNames(body) ==
  /\ body.t # "syntax error"
  /\ \/ body.t # "object"
     \/ ~validateTechnologyField(body.tech1, "tech1").isValid
     \/ ~validateTechnologyField(body.tech2, "tech2").isValid

\* the request handled last was let through by the limiter
LetThrough ==
  /\ request # None
  /\ Limited(request.headers)
  /\ nodeEnv = "test" \/ request.counted < RATE_LIMIT_MAX_REQUESTS

\* the request handled last got as far as the call of the model, which
\* failed with an error
ModelFailed ==
  /\ LetThrough
  /\ Reaches(request.body)
  /\ Race(request.outcome).kind = "error"

\* C15: a POST whose JSON body lacks tech1 or tech2 as a non-empty string is
\* answered with status 400, success false and a non-empty code and message.
NamelessBodyGets400 ==
  (request # None /\ Limited(request.headers) /\ LacksNames(request.body)) =>
    /\ httpResponse.status = 400
    /\ ~httpResponse.body.success
    /\ httpResponse.body.error.code # ""
    /\ httpResponse.body.error.message # ""

RejectedByValidation(answer) ==
  /\ answer # None
  /\ answer.status = 400
  /\ answer.body.error.code \in
       {"INVALID_JSON", "INVALID_REQUEST_BODY", "MISSING_TECH1", "MISSING_TECH2",
        "DUPLICATE_TECHNOLOGIES", "INVALID_TECH1_FORMAT", "INVALID_TECH2_FORMAT",
        "VALIDATION_ERROR"}

\* C18: the body is validated before the limiter is asked: a request that
\* validation rejects leaves the rate-limit record of every client as it was.
RejectedRequestIsFree ==
  [][RejectedByValidation(httpResponse') => rateLimitMap' = rateLimitMap]_vars

(* ---------------------------------------------------------------------- *)
(* Properties of the rate limiter                                          *)
(* ---------------------------------------------------------------------- *)

\* the admitted requests of a client less than a window before now
InLastWindow(c) ==
  Len(SelectSeq(admitted[c], LAMBDA t : t > now - RATE_LIMIT_WINDOW))

\* C19: of each client at most 10 requests are admitted within any interval
\* of 60 seconds, and a further request within it is answered with 429
\* RATE_LIMIT_EXCEEDED.
AtMostTenPerMinute ==
  \A c \in Clients : InLastWindow(c) <= RATE_LIMIT_MAX_REQUESTS

\* C19, for the windows the limiter keeps: a window of a client starts with
\* the client's first request, or with the first request later than the
\* resetTime of the window before, and lasts 60000 ms; of each client at
\* most 10 requests are admitted within one window and every further request
\* within it is answered with 429 RATE_LIMIT_EXCEEDED; a request that is not
\* beyond the tenth of its window is not answered so; with NODE_ENV 'test'
\* every request is admitted.
AtMostTenPerWindow ==
  /\ \A c \in DOMAIN rateLimitMap :
       /\ rateLimitMap[c].count <= RATE_LIMIT_MAX_REQUESTS
       /\ rateLimitMap[c].count =
            Len(SelectSeq(admitted[c],
                          LAMBDA t : t >= rateLimitMap[c].resetTime - RATE_LIMIT_WINDOW))
  /\ nodeEnv = "test" => rateLimitMap = [c \in {} |-> None]
  /\ (request # None /\ Limited(request.headers)) =>
       ((nodeEnv # "test" /\ request.counted >= RATE_LIMIT_MAX_REQUESTS)
          <=> (/\ httpResponse.status = 429
               /\ httpResponse.body.error.code = "RATE_LIMIT_EXCEEDED"))

\* the eleventh request of a window was answered with 429
EleventhRejected ==
  /\ request # None
  /\ nodeEnv = "production"
  /\ request.counted = RATE_LIMIT_MAX_REQUESTS
  /\ httpResponse.status = 429
  /\ httpResponse.body.error.code = "RATE_LIMIT_EXCEEDED"
(* ---------------------------------------------------------------------- *)
(* Properties of withRetry                                                 *)
(* ---------------------------------------------------------------------- *)

\* the call of withRetry is over
Settled == retry # None /\ retry.pc \in {"returned", "thrown"}

\* every invocation of the operation rejects with an Error that is neither an
\* AppError nor a TypeError
RejectsWithErrors ==
  \A i \in 1..MaxAttempts :
    ~retry.operation[i].resolved /\ retry.operation[i].error.class = "Error"

\* C20: when the operation rejects on every attempt with an ordinary Error,
\* withRetry invokes it exactly maxAttempts times and then rejects with the
\* error of the last attempt
RetriedToTheEnd ==
  (Settled /\ retry.config.maxAttempts >= 1 /\ RejectsWithErrors)
    => /\ retry.invoked = retry.config.maxAttempts
       /\ retry.pc = "thrown"
       /\ retry.lastError = retry.operation[retry.config.maxAttempts].error

(* ---------------------------------------------------------------------- *)
(* Properties of the section captures                                      *)
(* ---------------------------------------------------------------------- *)

\* the lines of the reply from line j up to the next heading line
RECURSIVE UpToHeading(_, _)
UpToHeading(text, j) ==
  IF j > Len(text) \/ text[j].k = "head" THEN <<>>
  ELSE <<text[j]>> \o UpToHeading(text, j + 1)

\* C21: the text captured for a section ends at the next heading of any
\* section that follows its own heading, not only at the heading with the
\* next ordinal: no captured text holds a heading line, and the capture is
\* what the reply holds between the section's heading and the next heading.
CaptureEndsAtNextHeading ==
  (sections # None /\ sections.success) =>
    \A i \in 1..Len(SectionKeys) :
      LET captured == sections.data[SectionKeys[i]]
          between == UpToHeading(Trim(response), HeadingLine(Trim(response), i) + 1)
      IN /\ \A j \in 1..Len(captured) : captured[j].k # "head"
         /\ captured \in {Trim(between), Trim(<<LabelText(SectionKeys[i])>> \o between)}

(* ---------------------------------------------------------------------- *)
(* Properties of the two phases of parseTaleOfTheTape                      *)
(* ---------------------------------------------------------------------- *)

\* the comparison the table phase leaves for the tape section of the reply
TableOf(content) == TablePhase(Flat(Trim(content)))

\* C22: the line-by-line phase is tried only for the dimensions the table
\* phase left out: a pair of descriptors that the table phase stored for a
\* dimension is the pair the matrix returns for it.
TablePairsKept ==
  (taleOfTheTape # None /\ taleOfTheTape.success) =>
    \A key \in DOMAIN TableOf(sections.data.taleOfTheTape) :
      taleOfTheTape.data[key] = TableOf(sections.data.taleOfTheTape)[key]

(* ---------------------------------------------------------------------- *)
(* Properties of the verdicts                                              *)
(* ---------------------------------------------------------------------- *)

\* the teams for which no pattern captures more than ten characters of the
\* verdicts section
ShortCaptures(content) ==
  SelectSeq(scenarioNames,
            LAMBDA name : \A i \in 1..ScenarioPatternCount :
                            ~LongEnough(ScenarioPattern(i, Trim(content), TeamType(name))))

\* C23: the text of a scenario is accepted only when a capture is longer
\* than ten characters after trimming: a team for which every capture has
\* ten characters or fewer gets no verdict, and the parse fails with the
\* missing-scenario failure of the first such team.
ShortCaptureIsMissing ==
  (scenarios # None /\ ShortCaptures(sections.data.verdicts) # <<>>) =>
    /\ ~scenarios.success
    /\ scenarios.error = [kind |-> "Missing scenario",
                          name |-> ShortCaptures(sections.data.verdicts)[1]]

\* the words of the text that parseScenarios keeps for the i-th team
ScenarioWords(i) ==
  AllWords(Trim(LocateLoop(Trim(sections.data.verdicts), TeamType(scenarioNames[i]), 1).capture))

\* no winner pattern matches the text of the i-th team, no positive word
\* stands next to one name only, and both names are mentioned equally often
Inconclusive(i) ==
  /\ scenarios # None
  /\ scenarios.success
  /\ WinnerLoop(Trim(LocateLoop(Trim(sections.data.verdicts),
                                TeamType(scenarioNames[i]), 1).capture), 1) = None
  /\ ContextLoop(ScenarioWords(i), tech1, tech2, 1) = ""
  /\ Mentions(ScenarioWords(i), Lower(tech1)) = Mentions(ScenarioWords(i), Lower(tech2))

\* index of the first word of the i-th text that is one of the two names
FirstMention(i) ==
  FirstOf({j \in 1..Len(ScenarioWords(i)) :
             Lower(ScenarioWords(i)[j]) \in {Lower(tech1), Lower(tech2)}})

\* C24 as stated: when no winner phrasing matches the text of a scenario and
\* neither the positive words nor the mention counts favour a technology,
\* the winner of the verdict is the first technology name of the call.
InconclusiveGivesFirstName ==
  \A i \in 1..Len(scenarioNames) :
    Inconclusive(i) => scenarios.data[i].winner = <<tech1>>

\* C24: in that case the winner is the name that the text mentions first,
\* as the text writes it, and the first technology name of the call when
\* the text mentions neither name.
InconclusiveGivesFirstMention ==
  \A i \in 1..Len(scenarioNames) :
    Inconclusive(i) =>
      scenarios.data[i].winner =
        IF FirstMention(i) # 0 THEN <<ScenarioWords(i)[FirstMention(i)]>> ELSE <<tech1>>

\* the second name won a scenario that mentions it first and the first name
\* after it, and the first name won a scenario that mentions neither
TieWonByFirstMention ==
  /\ tech1 # tech2
  /\ Inconclusive(2)
  /\ FirstMention(2) # 0
  /\ scenarios.data[2].winner = <<tech2>>
  /\ Inconclusive(3)
  /\ FirstMention(3) = 0
  /\ scenarios.data[3].winner = <<tech1>>

\* C25: every verdict of a successful scenario parse has a reasoning that
\* is not the empty string.
ReasoningNeverEmpty ==
  (scenarios # None /\ scenarios.success) =>
    \A i \in 1..Len(scenarios.data) : scenarios.data[i].reasoning # <<>>

\* withRetry returned what the invocation that resolved gave, the first one
\* to resolve, or threw the error of the invocation made last
SettledAsItShould ==
  /\ retry.pc = "returned" =>
       /\ retry.invoked >= 1
       /\ retry.operation[retry.invoked].resolved
       /\ \A i \in 1..(retry.invoked - 1) : ~retry.operation[i].resolved
  /\ retry.pc = "thrown" =>
       /\ retry.invoked >= 1
       /\ \A i \in 1..retry.invoked : ~retry.operation[i].resolved
       /\ retry.lastError = AsError(retry.operation[retry.invoked].error)

\* the operation is not invoked more often than maxAttempts allows, no
\* sleep follows the last attempt, and a call that is over is over as it should
BoundedAttempts ==
  (retry # None /\ retry.config.maxAttempts >= 1) =>
    /\ retry.invoked <= retry.config.maxAttempts
    /\ retry.attempt <= retry.config.maxAttempts
    /\ retry.pc = "sleep" => retry.attempt < retry.config.maxAttempts
    /\ retry.pc # "loop" => retry.invoked = retry.attempt
    /\ SettledAsItShould

\* C27: for maxAttempts >= 1 and an operation that settles at every
\* invocation, withRetry never invokes the operation more than maxAttempts
\* times, never sleeps after the last attempt, and settles: it resolves with
\* the first result the operation resolves with or rejects with the error of
\* the last invocation.
BoundedAndSettles == []BoundedAttempts /\ <>Settled

\* withRetry rejected after three invocations and two sleeps
ThrownAfterThree ==
  /\ Settled
  /\ retry.pc = "thrown"
  /\ retry.config.maxAttempts = 3
  /\ retry.invoked = 3
  /\ now > 0

(* ---------------------------------------------------------------------- *)
(* Properties of retryFetch                                                *)
(* ---------------------------------------------------------------------- *)

\* the server answers every request with a status of 500 or more, or with 429
AlwaysOverloaded ==
  \A i \in 1..MaxAttempts :
    /\ retry.answers[i].kind = "response"
    /\ retry.answers[i].status >= 500 \/ retry.answers[i].status = 429

\* C26: when the server answers a request of retryFetch with a status 5xx
\* or 429 the request is issued again: against a server that answers so
\* every time, fetch is called maxAttempts times before retryFetch rejects.
OverloadRetried ==
  (Settled /\ AlwaysOverloaded) =>
    /\ retry.pc = "thrown"
    /\ retry.invoked = retry.config.maxAttempts

(* ---------------------------------------------------------------------- *)
(* Properties of the timer of POST                                         *)
(* ---------------------------------------------------------------------- *)

\* the timer fired and the call of the model had not settled by then
TimedOut ==
  /\ flight # None
  /\ flight.timer = "fired"
  /\ flight.call = Pending \/ flight.settledAt > flight.started + Timeout

\* C28: when the call of the model has not settled 30000 ms after its start,
\* POST responds with 408 and TIMEOUT_ERROR, once, parseLLMResponse is not
\* invoked, and the call settling later changes nothing.
TimeoutAnsweredOnce ==
  TimedOut =>
    /\ Len(flight.responses) = 1
    /\ flight.responses[1].status = 408
    /\ flight.responses[1].body.success = FALSE
    /\ flight.responses[1].body.error.code = "TIMEOUT_ERROR"
    /\ flight.responses[1].body.error.timestamp = flight.started + Timeout
    /\ flight.parsed = 0

\* the model replied as the prompt asks 15 s after POST had answered 408
LateReplyIgnored ==
  /\ TimedOut
  /\ flight.call.kind = "reply"
  /\ flight.call.text # <<>>
  /\ flight.settledAt = flight.started + Timeout + Lapse
  /\ Len(flight.responses) = 1

(* ---------------------------------------------------------------------- *)
(* Properties of the page                                                  *)
(* ---------------------------------------------------------------------- *)

\* C29: the callback that a click on Retry scheduled does not clear the
\* error of the request that the same click started.
RetriedErrorStays ==
  [][\A timer \in (IF page = None THEN {} ELSE page.timers) :
       (/\ timer.request # 0
        /\ page.error # NoError
        /\ page.error.of = timer.request
        /\ timer \notin page'.timers)
       => page'.error = page.error]_vars

\* C30: at most one request is in flight, loading is true exactly while one
\* is, and the analysis or the error on the page is that of the request
\* started last.
OneRequestInFlight ==
  page # None =>
    /\ Cardinality(page.inFlight) <= 1
    /\ page.loading <=> page.inFlight # {}
    /\ page.inFlight \subseteq {page.issued}
    /\ page.analysis \in {0, page.issued}
    /\ page.error.of \in {0, page.issued}
    /\ page.inFlight # {} => page.analysis = 0 /\ page.error = NoError

\* a third request is in flight, started by a click on Retry after the
\* second failed, the first having been started by the form
RetryInFlight ==
  /\ page # None
  /\ page.issued = 3
  /\ page.inFlight = {3}
  /\ page.loading
  /\ \E timer \in page.timers : timer.request = 3

====
